---- MODULE Spec2Model ----
(***************************************************************************)
(* Pod health diagnostic pipeline of k8s-ai-monitor.                       *)
(*                                                                         *)
(* Two detectors are modelled side by side: KubernetesMonitor of           *)
(* k8s/monitor.py and PodMonitor of monitor/pods.py, and the scan loop     *)
(* monitor_pods of commands/pods.py that drives PodMonitor.                *)
(* Two analysis clients are modelled side by side: ClaudeAnalyzer of       *)
(* ai/claude.py, which monitor_pods calls, and LLMProcessor of             *)
(* llm/processor.py.                                                       *)
(* main.py carries a pipeline of its own: its KubernetesMonitor, its copy  *)
(* of LLMProcessor, SlackNotifier, and the loop monitor_all_clusters of    *)
(* KubernetesAssistant.                                                    *)
(*                                                                         *)
(* Python strings are sequences of tokens: an f-string is the sequence of *)
(* its literal pieces and interpolated values, `x in s` is membership of   *)
(* the token x in s, and None is the one-token sequence None.              *)
(***************************************************************************)
EXTENDS Integers, Sequences, FiniteSets, TLC

VARIABLES
    impl,          \* the detector class in use
    clusters,      \* KubernetesMonitor: the names of the configured clusters
    pc,            \* control position of the caller
    namespaces,    \* monitor_pods: the namespaces argument
    nsIdx,         \* monitor_pods: index of the namespace of the for loop
    api,           \* the cluster API's responses during the current call
    issues,        \* the list the last check_pod_health call returned
    raised,        \* whether that call ended in its except clause
    calls,         \* the API calls that call made, in order
    issueIdx,      \* monitor_pods: index of the issue of the inner for loop
    total_issues,  \* monitor_pods: total_issues
    scanned,       \* the check_pod_health calls so far: namespace and outcome
    displayed,     \* issues handed to display_issue, in order
    analyzer,      \* the analysis client in use, "none" without an API key
    input,         \* the issue and the LLM endpoint's answer of an analyze_issue call
    analysis,      \* what the last analyze_issue call did
    trace,         \* the scan loop: the steps taken so far, in order
    cycle,         \* monitor_all_clusters: the iteration of `while True:`
    rendered       \* what a sink showed of the alert it was handed

vars == <<impl, clusters, pc, namespaces, nsIdx, api, issues, raised, calls,
          issueIdx, total_issues, scanned, displayed, analyzer, input, analysis,
          trace, cycle, rendered>>

----------------------------------------------------------------------------
(* Bounds and input sets *)

MaxContainers == 2
MaxPods == 2
MaxNamespaces == 2

RestartThreshold == 5

None == <<"None">>

Str(tok) == <<tok>>

ContainerNames == [i \in 1..MaxContainers |-> "c" \o ToString(i)]
PodNames == [i \in 1..MaxPods |-> "pod" \o ToString(i)]
NamespaceNames == [i \in 1..MaxNamespaces |-> "ns" \o ToString(i)]

KubernetesMonitor == "KubernetesMonitor"
PodMonitor == "PodMonitor"
Impls == {KubernetesMonitor, PodMonitor}

Phases == {Str("Running"), Str("Succeeded"), Str("Pending"), Str("Failed"),
           Str("Unknown"), <<"Init:", "Error">>, None}

WaitingReasons == {Str("CrashLoopBackOff"), Str("ImagePullBackOff"),
                   Str("CreateContainerError"), Str("ContainerCreating"),
                   Str("OOMKilled"), None}

Running == [kind |-> "running", reason |-> None, exit_code |-> 0]
Waiting(r) == [kind |-> "waiting", reason |-> r, exit_code |-> 0]
Terminated(r, code) == [kind |-> "terminated", reason |-> r, exit_code |-> code]

ContainerStates ==
    {Running} \cup {Waiting(r) : r \in WaitingReasons}
    \cup {Terminated(Str("OOMKilled"), 137), Terminated(Str("Error"), 1),
          Terminated(Str("Completed"), 0)}

(* a container status is a state and a restart count, at the threshold or *)
(* just above it                                                           *)
MkStatus(st, n) == <<st, n>>

RestartCounts == {RestartThreshold, RestartThreshold + 1}

StatusInputs == {MkStatus(st, n) : st \in ContainerStates, n \in RestartCounts}

(* The container statuses of a pod: status i is that of container c_i. *)
StatusSeqs == UNION {[1..n -> StatusInputs] : n \in 0..MaxContainers}

MkStatuses(sq) ==
    [i \in 1..Len(sq) |->
        [name |-> ContainerNames[i], state |-> sq[i][1], restart_count |-> sq[i][2]]]

(* spec.containers: the declared names, one per status; a pod whose        *)
(* statuses are not yet reported declares one container, or none, the case *)
(* the detectors guard with their IndexError handler.                      *)
Declared(n) == [i \in 1..n |-> ContainerNames[i]]

MkPod(name, phase, sq, nDecl) ==
    [name |-> name, phase |-> phase, container_statuses |-> MkStatuses(sq),
     containers |-> Declared(nDecl)]

DeclCounts(sq) == IF Len(sq) = 0 THEN {0, 1} ELSE {Len(sq)}

----------------------------------------------------------------------------
(* The cluster API as one check_pod_health call sees it.                   *)
(*   list_fails   list_namespaced_pod raises                               *)
(*   pods         the items it returns otherwise                           *)
(*   logs_fail    names of the pods whose read_namespaced_pod_log raises   *)
(*   events_fail  names of the pods whose list_namespaced_event raises     *)
(*   events       the event items listed for a pod                         *)

Ok(v) == [raised |-> FALSE, val |-> v]
Raise(e) == [raised |-> TRUE, val |-> Str(e)]

list_namespaced_pod(a) ==
    IF a.list_fails THEN Raise("ApiException") ELSE Ok(a.pods)

read_namespaced_pod_log(a, pod_name, container) ==
    IF pod_name \in a.logs_fail THEN Raise("ApiException")
    ELSE Ok(<<"logs of ", pod_name, "/", container>>)

list_namespaced_event(a, pod_name) ==
    IF pod_name \in a.events_fail THEN Raise("ApiException") ELSE Ok(a.events)

LogCall(pod_name, container) == <<"read_namespaced_pod_log", pod_name, container>>
EventCall(pod_name) == <<"list_namespaced_event", pod_name>>
ListCall(ns) == <<"list_namespaced_pod", ns>>

----------------------------------------------------------------------------
(* check_pod_health: the classification of one pod *)

(* the list without Unknown *)
problematic_phases_NoUnknown == {Str("Pending"), Str("Failed")}

problematic_phases == {Str("Pending"), Str("Failed"), Str("Unknown")}

(* x in s for strings; raises TypeError when s is None *)
In(tok, s) == \E i \in 1..Len(s) : s[i] = tok

(* d[k] = v on an insertion-ordered dict kept as a sequence of <<k, v>> *)
DictSet(d, k, v) ==
    IF \E i \in 1..Len(d) : d[i][1] = k
    THEN [i \in 1..Len(d) |-> IF d[i][1] = k THEN <<k, v>> ELSE d[i]]
    ELSE Append(d, <<k, v>>)

RECURSIVE ContainerIssuesFrom(_, _, _)
ContainerIssuesFrom(css, i, d) ==
    IF i > Len(css) THEN d
    ELSE LET cs == css[i] IN
         IF cs.state.kind = "waiting"
         THEN ContainerIssuesFrom(css, i + 1, DictSet(d, cs.name, cs.state.reason))
         ELSE IF cs.state.kind = "terminated" /\ cs.state.exit_code # 0
         THEN ContainerIssuesFrom(css, i + 1,
                  DictSet(d, cs.name,
                          <<"Terminated(ExitCode:", ToString(cs.state.exit_code), ")">>))
         ELSE ContainerIssuesFrom(css, i + 1, d)

container_issues(pod) == ContainerIssuesFrom(pod.container_statuses, 1, <<>>)

AnyReasonIs(d, r) == \E i \in 1..Len(d) : d[i][2] = Str(r)

crash_loop_back_off(d) == AnyReasonIs(d, "CrashLoopBackOff")
image_pull_back_off(d) == AnyReasonIs(d, "ImagePullBackOff")
create_container_error(d) == AnyReasonIs(d, "CreateContainerError")

(* the test that passes over a None reason *)
RECURSIVE OomFrom_SkipNone(_, _)
OomFrom_SkipNone(d, i) ==
    IF i > Len(d) THEN Ok(FALSE)
    ELSE IF d[i][2] = None THEN OomFrom_SkipNone(d, i + 1)
    ELSE IF In("OOMKilled", d[i][2]) THEN Ok(TRUE)
    ELSE OomFrom_SkipNone(d, i + 1)

(* any("OOMKilled" in reason for ...): stops at the first hit, and raises  *)
(* TypeError on a None reason met before one.                              *)
RECURSIVE OomFrom(_, _)
OomFrom(d, i) ==
    IF i > Len(d) THEN Ok(FALSE)
    ELSE IF d[i][2] = None THEN Raise("TypeError")
    ELSE IF In("OOMKilled", d[i][2]) THEN Ok(TRUE)
    ELSE OomFrom(d, i + 1)

oom_killed(d) == OomFrom(d, 1)

(* pod_phase in problematic_phases or "Error" in pod_phase *)
PhaseCheck(pod_phase) ==
    IF pod_phase \in problematic_phases THEN Ok(TRUE)
    ELSE IF pod_phase = None THEN Raise("TypeError")
    ELSE Ok(In("Error", pod_phase))

(* the condition of the if statement, its operands evaluated left to right *)
Flagged(pod, d, oom) ==
    LET ph == PhaseCheck(pod.phase) IN
    IF ph.raised THEN ph
    ELSE Ok(ph.val \/ crash_loop_back_off(d) \/ image_pull_back_off(d)
            \/ create_container_error(d) \/ oom)

(* the elif chain with ImagePullBackOff tested before CrashLoopBackOff *)
Classify_ImagePullFirst(pod, d, oom) ==
    IF image_pull_back_off(d)
    THEN <<"ImagePullBackOff", Str("Pod has ImagePullBackOff error")>>
    ELSE IF crash_loop_back_off(d)
    THEN <<"CrashLoopBackOff", Str("Pod is in CrashLoopBackOff state")>>
    ELSE IF create_container_error(d)
    THEN <<"CreateContainerError", Str("Pod failed to create container")>>
    ELSE IF oom
    THEN <<"OOMKilled", Str("Pod was terminated due to out of memory")>>
    ELSE IF Len(d) > 0
    THEN <<"ContainerError", <<"Container ", d[1][1], " has issue: ">> \o d[1][2]>>
    ELSE <<"PodStatusIssue", <<"Pod is in ">> \o pod.phase \o <<" state">>>>

(* issue_type and description of the flagged pod *)
Classify(pod, d, oom) ==
    IF crash_loop_back_off(d)
    THEN <<"CrashLoopBackOff", Str("Pod is in CrashLoopBackOff state")>>
    ELSE IF image_pull_back_off(d)
    THEN <<"ImagePullBackOff", Str("Pod has ImagePullBackOff error")>>
    ELSE IF create_container_error(d)
    THEN <<"CreateContainerError", Str("Pod failed to create container")>>
    ELSE IF oom
    THEN <<"OOMKilled", Str("Pod was terminated due to out of memory")>>
    ELSE IF Len(d) > 0
    THEN <<"ContainerError", <<"Container ", d[1][1], " has issue: ">> \o d[1][2]>>
    ELSE <<"PodStatusIssue", <<"Pod is in ">> \o pod.phase \o <<" state">>>>

----------------------------------------------------------------------------
(* check_pod_health: evidence and the issue records *)

cluster_name == "dev"

(* the dict appended to issues; detected_at, the wall-clock time of the    *)
(* append, is not part of the record                                       *)
Issue(im, ns, pod_name, issue_type, severity, description, logs, events) ==
    IF im = KubernetesMonitor
    THEN [cluster |-> cluster_name,
          namespace |-> ns, resource_type |-> "Pod", resource_name |-> pod_name,
          issue_type |-> issue_type, severity |-> severity,
          description |-> description, logs |-> logs, events |-> events]
    ELSE [namespace |-> ns, resource_type |-> "Pod", resource_name |-> pod_name,
          issue_type |-> issue_type, severity |-> severity,
          description |-> description, logs |-> logs, events |-> events]

CouldNotGetLogs(e) == <<"Could not get logs: ">> \o e

(* the event_messages list built from events.items *)
event_messages(items) ==
    [i \in 1..Len(items) |->
        [type |-> items[i].type, reason |-> items[i].reason,
         message |-> items[i].message, count |-> items[i].count]]

(* What the body of the for loop does for one pod:                         *)
(*   raised  an exception left the body                                    *)
(*   issues  the records appended to issues                                *)
(*   calls   the API calls made                                            *)
Step(r, is, cs) == [raised |-> r, issues |-> is, calls |-> cs]

(* the log read taken from the first container whose state is not running, *)
(* when there is one                                                       *)
FlaggedLogs_FromTrigger(a, pod) ==
    IF Len(pod.containers) = 0
    THEN [logs |-> CouldNotGetLogs(Str("list index out of range")), calls |-> <<>>]
    ELSE LET cs == pod.container_statuses
             bad == {k \in 1..Len(cs) : cs[k].state.kind # "running"}
             c == IF bad = {} THEN pod.containers[1]
                  ELSE cs[CHOOSE k \in bad : \A j \in bad : k <= j].name
             r == read_namespaced_pod_log(a, pod.name, c)
         IN  [logs |-> IF r.raised THEN CouldNotGetLogs(r.val) ELSE r.val,
              calls |-> <<LogCall(pod.name, c)>>]

(* the try block around the log read of a flagged pod: spec.containers[0]  *)
(* raises IndexError when nothing is declared, and every exception becomes *)
(* the placeholder                                                         *)
FlaggedLogs(a, pod) ==
    IF Len(pod.containers) = 0
    THEN [logs |-> CouldNotGetLogs(Str("list index out of range")), calls |-> <<>>]
    ELSE LET r == read_namespaced_pod_log(a, pod.name, pod.containers[1]) IN
         [logs |-> IF r.raised THEN CouldNotGetLogs(r.val) ELSE r.val,
          calls |-> <<LogCall(pod.name, pod.containers[1])>>]

(* the body that grades by the rule: "Low" for a pod flagged by its phase   *)
(* alone                                                                   *)
FlaggedPod_LowForPhase(im, a, ns, pod, d, oom) ==
    LET lg == FlaggedLogs(a, pod)
        ev == list_namespaced_event(a, pod.name)
        cl == Classify(pod, d, oom)
        cs == lg.calls \o <<EventCall(pod.name)>>
    IN  IF ev.raised THEN Step(TRUE, <<>>, cs)
        ELSE Step(FALSE,
                  <<Issue(im, ns, pod.name, cl[1],
                          IF cl[1] = "PodStatusIssue" THEN "Low" ELSE "High", cl[2], lg.logs,
                          event_messages(ev.val))>>,
                  cs)

(* the body of `if pod_phase in problematic_phases or ...:` *)
FlaggedPod(im, a, ns, pod, d, oom) ==
    LET lg == FlaggedLogs(a, pod)
        ev == list_namespaced_event(a, pod.name)
        cl == Classify(pod, d, oom)
        cs == lg.calls \o <<EventCall(pod.name)>>
    IN  IF ev.raised THEN Step(TRUE, <<>>, cs)
        ELSE Step(FALSE,
                  <<Issue(im, ns, pod.name, cl[1], "High", cl[2], lg.logs,
                          event_messages(ev.val))>>,
                  cs)

(* the log read of the restart loop: PodMonitor wraps it in try/except,    *)
(* KubernetesMonitor does not                                              *)
RestartLogs(im, a, pod, container) ==
    LET r == read_namespaced_pod_log(a, pod.name, container) IN
    IF r.raised /\ im = PodMonitor THEN Ok(CouldNotGetLogs(r.val)) ELSE r

(* the restart loop with `restart_count >= 5` for its test *)
RECURSIVE RestartLoop_AtThreshold(_, _, _, _, _, _)
RestartLoop_AtThreshold(im, a, ns, pod, i, acc) ==
    IF i > Len(pod.container_statuses) THEN acc
    ELSE LET container_status == pod.container_statuses[i]
             restart_count == container_status.restart_count
         IN
         IF ~(restart_count >= RestartThreshold)
         THEN RestartLoop_AtThreshold(im, a, ns, pod, i + 1, acc)
         ELSE LET lg == RestartLogs(im, a, pod, container_status.name)
                  ev == list_namespaced_event(a, pod.name)
                  c1 == acc.calls \o <<LogCall(pod.name, container_status.name)>>
                  c2 == c1 \o <<EventCall(pod.name)>>
              IN
              IF lg.raised THEN Step(TRUE, acc.issues, c1)
              ELSE IF ev.raised THEN Step(TRUE, acc.issues, c2)
              ELSE RestartLoop_AtThreshold(im, a, ns, pod, i + 1,
                       Step(FALSE,
                            Append(acc.issues,
                                Issue(im, ns, pod.name, "ContainerRestartIssue", "Medium",
                                      <<"Container ", container_status.name, " has restarted ",
                                        ToString(restart_count), " times">>,
                                      lg.val, event_messages(ev.val))),
                            c2))

(* `for container_status in pod_status.container_statuses or []:` *)
RECURSIVE RestartLoop(_, _, _, _, _, _)
RestartLoop(im, a, ns, pod, i, acc) ==
    IF i > Len(pod.container_statuses) THEN acc
    ELSE LET container_status == pod.container_statuses[i]
             restart_count == container_status.restart_count
         IN
         IF ~(restart_count > RestartThreshold)
         THEN RestartLoop(im, a, ns, pod, i + 1, acc)
         ELSE LET lg == RestartLogs(im, a, pod, container_status.name)
                  ev == list_namespaced_event(a, pod.name)
                  c1 == acc.calls \o <<LogCall(pod.name, container_status.name)>>
                  c2 == c1 \o <<EventCall(pod.name)>>
              IN
              IF lg.raised THEN Step(TRUE, acc.issues, c1)
              ELSE IF ev.raised THEN Step(TRUE, acc.issues, c2)
              ELSE RestartLoop(im, a, ns, pod, i + 1,
                       Step(FALSE,
                            Append(acc.issues,
                                Issue(im, ns, pod.name, "ContainerRestartIssue", "Medium",
                                      <<"Container ", container_status.name, " has restarted ",
                                        ToString(restart_count), " times">>,
                                      lg.val, event_messages(ev.val))),
                            c2))

(* the loop body without the `continue` that ends the flagged branch *)
ProcessPod_NoContinue(im, a, ns, pod) ==
    LET d == container_issues(pod)
        oom == oom_killed(d)
    IN  IF oom.raised THEN Step(TRUE, <<>>, <<>>)
        ELSE LET fl == Flagged(pod, d, oom.val) IN
             IF fl.raised THEN Step(TRUE, <<>>, <<>>)
             ELSE IF fl.val
             THEN LET st == FlaggedPod(im, a, ns, pod, d, oom.val) IN
                  IF st.raised THEN st ELSE RestartLoop(im, a, ns, pod, 1, st)
             ELSE RestartLoop(im, a, ns, pod, 1, Step(FALSE, <<>>, <<>>))

(* one iteration of `for pod in pods.items:` *)
ProcessPod(im, a, ns, pod) ==
    LET d == container_issues(pod)
        oom == oom_killed(d)
    IN  IF oom.raised THEN Step(TRUE, <<>>, <<>>)
        ELSE LET fl == Flagged(pod, d, oom.val) IN
             IF fl.raised THEN Step(TRUE, <<>>, <<>>)
             ELSE IF fl.val THEN FlaggedPod(im, a, ns, pod, d, oom.val)
             ELSE RestartLoop(im, a, ns, pod, 1, Step(FALSE, <<>>, <<>>))

RECURSIVE PodLoop(_, _, _, _, _, _)
PodLoop(im, a, ns, pods, i, acc) ==
    IF i > Len(pods) THEN acc
    ELSE LET st == ProcessPod(im, a, ns, pods[i]) IN
         IF st.raised THEN Step(TRUE, acc.issues \o st.issues, acc.calls \o st.calls)
         ELSE PodLoop(im, a, ns, pods, i + 1,
                      Step(FALSE, acc.issues \o st.issues, acc.calls \o st.calls))

(* check_pod_health with an except clause that returns the issues          *)
(* assembled before the exception                                          *)
check_pod_health_KeepAssembled(im, cl, a, ns) ==
    IF im = KubernetesMonitor /\ cluster_name \notin cl
    THEN [raised |-> FALSE, val |-> <<>>, calls |-> <<>>]
    ELSE
    LET ls == list_namespaced_pod(a) IN
    IF ls.raised THEN [raised |-> TRUE, val |-> <<>>, calls |-> <<ListCall(ns)>>]
    ELSE LET r == PodLoop(im, a, ns, ls.val, 1, Step(FALSE, <<>>, <<ListCall(ns)>>)) IN
         [raised |-> r.raised, val |-> r.issues, calls |-> r.calls]

(* check_pod_health(namespace): the returned list is `val`; an exception   *)
(* anywhere in the try block ends in the except clause, which returns [].  *)
(* KubernetesMonitor first returns [] for a cluster it has not configured. *)
check_pod_health(im, cl, a, ns) ==
    IF im = KubernetesMonitor /\ cluster_name \notin cl
    THEN [raised |-> FALSE, val |-> <<>>, calls |-> <<>>]
    ELSE
    LET ls == list_namespaced_pod(a) IN
    IF ls.raised THEN [raised |-> TRUE, val |-> <<>>, calls |-> <<ListCall(ns)>>]
    ELSE LET r == PodLoop(im, a, ns, ls.val, 1, Step(FALSE, <<>>, <<ListCall(ns)>>)) IN
         [raised |-> r.raised, val |-> IF r.raised THEN <<>> ELSE r.issues,
          calls |-> r.calls]

----------------------------------------------------------------------------
(* Python's str methods on token sequences. len() counts tokens: a text    *)
(* whose length matters is given one token per character.                  *)

Min(S) == CHOOSE x \in S : \A y \in S : x <= y
Max(S) == CHOOSE x \in S : \A y \in S : x >= y

IsSpace(tok) == tok \in {" ", "\n"}

(* s.strip() *)
strip(s) ==
    LET idx == {i \in 1..Len(s) : ~IsSpace(s[i])} IN
    IF idx = {} THEN <<>> ELSE SubSeq(s, Min(idx), Max(idx))

(* the start positions of sep in s *)
Occurs(s, sep) ==
    {i \in 1..(Len(s) - Len(sep) + 1) : SubSeq(s, i, i + Len(sep) - 1) = sep}

(* s.split(sep): the pieces between the occurrences of sep, left to right *)
RECURSIVE split(_, _)
split(s, sep) ==
    LET occ == Occurs(s, sep) IN
    IF occ = {} THEN <<s>>
    ELSE LET i == Min(occ) IN
         <<SubSeq(s, 1, i - 1)>> \o split(SubSeq(s, i + Len(sep), Len(s)), sep)

(* sep.join(parts) *)
RECURSIVE join(_, _)
join(parts, sep) ==
    IF Len(parts) = 0 THEN <<>>
    ELSE IF Len(parts) = 1 THEN parts[1]
    ELSE parts[1] \o sep \o join(Tail(parts), sep)

(* s.replace(old, new) *)
replace(s, old, new) == join(split(s, old), new)

(* s.lower() *)
LowerTok(tok) ==
    CASE tok = "Diagnosis" -> "diagnosis"
      [] tok = "Recommendations" -> "recommendations"
      [] tok = "X" -> "x"
      [] OTHER -> tok

lower(s) == [i \in 1..Len(s) |-> LowerTok(s[i])]

(* s[-n:] *)
LastN(s, n) == IF Len(s) > n THEN SubSeq(s, Len(s) - n + 1, Len(s)) ELSE s

(* s[:n] *)
FirstN(s, n) == IF Len(s) > n THEN SubSeq(s, 1, n) ELSE s

(* the concatenation of the sequences of a sequence *)
RECURSIVE Concat(_)
Concat(ss) == IF Len(ss) = 0 THEN <<>> ELSE ss[1] \o Concat(Tail(ss))

----------------------------------------------------------------------------
(* The LLM endpoint's answer to one request:                               *)
(*   kind "error"     the request fails before a response (network)        *)
(*   kind "response"  a response of some status whose body is unparsable,  *)
(*                    has no content block, or carries a text              *)

NetworkError == [kind |-> "error", error |-> Str("Connection error.")]

Malformed == [kind |-> "malformed"]
NoContent == [kind |-> "no_content"]
Text(t) == [kind |-> "text", text |-> t]

Response(status, body) == [kind |-> "response", status |-> status, body |-> body]

KeyError(k) == [raised |-> TRUE, val |-> <<"'", k, "'">>]

HasKey(d, k) == k \in DOMAIN d

----------------------------------------------------------------------------
(* ClaudeAnalyzer.analyze_issue of ai/claude.py *)

LogTailChars == 1000

(* what analyze_issue did: the exception that left it if any, the value   *)
(* it returned, and the prompts of the requests it sent, in order          *)
Analyzed(r, v, reqs) == [raised |-> r, val |-> v, requests |-> reqs]

Analysis(diagnosis, recommendations) ==
    [diagnosis |-> diagnosis, recommendations |-> recommendations]

(* the string of the lines `for event in events: events_text += ...` *)
ClaudeEventLine(event) ==
    <<"Type: ", event.type, ", Reason: ", event.reason, ", Message: ",
      event.message, "\n">>

ClaudeEventsText(events) == Concat([i \in 1..Len(events) |-> ClaudeEventLine(events[i])])

(* logs_excerpt *)
ClaudeLogsExcerpt(issue) ==
    LET logs == IF HasKey(issue, "logs") THEN issue.logs ELSE <<>> IN
    IF Len(logs) > 0
    THEN (IF Len(logs) > LogTailChars THEN LastN(logs, LogTailChars) ELSE logs)
    ELSE Str("No logs available")

(* the f-string of the prompt *)
ClaudePrompt(issue) ==
    <<"As a Kubernetes expert, analyze this issue and provide a VERY CONCISE diagnosis and recommendations.",
      " ISSUE DETAILS: - Resource Type: ", issue.resource_type,
      " - Resource Name: ", issue.resource_name,
      " - Issue Type: ", issue.issue_type,
      " - Description: ">>
    \o (IF HasKey(issue, "description") THEN issue.description
        ELSE Str("No description provided"))
    \o <<" LOGS: ">> \o ClaudeLogsExcerpt(issue)
    \o <<" EVENTS: ">>
    \o ClaudeEventsText(IF HasKey(issue, "events") THEN issue.events ELSE <<>>)
    \o <<" Format your response exactly like this: ",
         "Diagnosis", ":", " [2-3 sentences explaining the root cause] ",
         "Recommendations", ":", " [First recommendation] ... [Fifth recommendation]">>

(* await self.client.messages.create(...) and message.content[0].text: the *)
(* client raises on a failed request, on a status other than 2xx and on a  *)
(* body it cannot parse; content[0] raises on an empty content list        *)
ClaudeResponseText(llm) ==
    IF llm.kind = "error" THEN [raised |-> TRUE, val |-> llm.error]
    ELSE IF llm.status # 200
    THEN [raised |-> TRUE, val |-> <<"Error code: ", ToString(llm.status)>>]
    ELSE IF llm.body.kind = "malformed"
    THEN [raised |-> TRUE, val |-> Str("Expecting value: line 1 column 1 (char 0)")]
    ELSE IF llm.body.kind = "no_content"
    THEN [raised |-> TRUE, val |-> Str("list index out of range")]
    ELSE Ok(llm.body.text)

(* "Split the response into diagnosis and recommendations" *)
ClaudeParse(response_text) ==
    LET parts == split(response_text, <<"Recommendations", ":">>) IN
    IF Len(parts) > 1
    THEN Analysis(strip(replace(parts[1], <<"Diagnosis", ":">>, <<>>)), strip(parts[2]))
    ELSE Analysis(response_text, Str("No specific recommendations provided"))

(* the except clause *)
ClaudeDegraded(e) ==
    Analysis(<<"Error processing with Claude: ">> \o e,
             Str("Please check the logs for details"))

ClaudeMissingKey(issue) ==
    IF ~HasKey(issue, "resource_type") THEN KeyError("resource_type")
    ELSE IF ~HasKey(issue, "resource_name") THEN KeyError("resource_name")
    ELSE IF ~HasKey(issue, "issue_type") THEN KeyError("issue_type")
    ELSE Ok(<<>>)

(* the try block sending the request a second time when the first failed *)
ClaudeTry_Retry(issue, llm) ==
    LET k == ClaudeMissingKey(issue) IN
    IF k.raised THEN Analyzed(TRUE, k.val, <<>>)
    ELSE LET prompt == ClaudePrompt(issue)
             r == ClaudeResponseText(llm)
         IN  IF r.raised THEN Analyzed(TRUE, r.val, <<prompt, prompt>>)
             ELSE Analyzed(FALSE, ClaudeParse(r.val), <<prompt>>)

(* the body of the try block: raised when an exception leaves it *)
ClaudeTry(issue, llm) ==
    LET k == ClaudeMissingKey(issue) IN
    IF k.raised THEN Analyzed(TRUE, k.val, <<>>)
    ELSE LET prompt == ClaudePrompt(issue)
             r == ClaudeResponseText(llm)
         IN  IF r.raised THEN Analyzed(TRUE, r.val, <<prompt>>)
             ELSE Analyzed(FALSE, ClaudeParse(r.val), <<prompt>>)

(* analyze_issue with the reads of the issue's keys placed before `try:` *)
ClaudeAnalyzer_analyze_issue_KeysBeforeTry(issue, llm) ==
    LET t == ClaudeTry(issue, llm) IN
    IF t.raised /\ ClaudeMissingKey(issue).raised THEN t
    ELSE IF t.raised THEN Analyzed(FALSE, ClaudeDegraded(t.val), t.requests)
    ELSE t

(* try: ... except Exception as e: ... *)
ClaudeAnalyzer_analyze_issue(issue, llm) ==
    LET t == ClaudeTry(issue, llm) IN
    IF t.raised THEN Analyzed(FALSE, ClaudeDegraded(t.val), t.requests) ELSE t

----------------------------------------------------------------------------
(* LLMProcessor.analyze_issue of llm/processor.py (main.py carries the     *)
(* same class); its (diagnosis, recommendations) tuple is kept as the      *)
(* record Analysis                                                         *)

LogTailLines == 20

EventCap == 5

(* logs_excerpt = "\n".join(details["logs"].strip().split("\n")[-20:]) *)
LLMLogsExcerpt(details) ==
    IF HasKey(details, "logs") /\ Len(details.logs) > 0
    THEN join(LastN(split(strip(details.logs), <<"\n">>), LogTailLines), <<"\n">>)
    ELSE <<>>

LLMEventLine(event) ==
    <<"- ", event.type, ": ", event.reason, " - ", event.message, "\n">>

(* events_data, built from details["events"][:5] *)
LLMEventsData(details) ==
    IF HasKey(details, "events") /\ Len(details.events) > 0
    THEN LET first == FirstN(details.events, EventCap) IN
         Concat([i \in 1..Len(first) |-> LLMEventLine(first[i])])
    ELSE <<>>

(* json.dumps of a string: the line feed becomes the two characters \n *)
JsonString(s) ==
    <<"\"">> \o [i \in 1..Len(s) |-> IF s[i] = "\n" THEN "\\n" ELSE s[i]] \o <<"\"">>

JsonEvent(event) ==
    <<"{\"type\": \"", event.type, "\", \"reason\": \"", event.reason,
      "\", \"message\": \"", event.message, "\", \"count\": ", ToString(event.count), "}">>

JsonEvents(events) ==
    <<"[">> \o join([i \in 1..Len(events) |-> JsonEvent(events[i])], <<", ">>) \o <<"]">>

(* json.dumps(details, indent=2, default=str): every key of details with   *)
(* its whole value, in insertion order                                     *)
json_dumps(details) ==
    LET entries ==
          (IF HasKey(details, "restart_count")
           THEN <<(<<"\"restart_count\": ", ToString(details.restart_count)>>)>> ELSE <<>>)
       \o (IF HasKey(details, "state")
           THEN <<(<<"\"state\": ">> \o JsonString(details.state))>> ELSE <<>>)
       \o (IF HasKey(details, "phase")
           THEN <<(<<"\"phase\": ">> \o JsonString(details.phase))>> ELSE <<>>)
       \o (IF HasKey(details, "conditions")
           THEN <<(<<"\"conditions\": ">> \o JsonString(details.conditions))>> ELSE <<>>)
       \o (IF HasKey(details, "logs")
           THEN <<(<<"\"logs\": ">> \o JsonString(details.logs))>> ELSE <<>>)
       \o (IF HasKey(details, "events")
           THEN <<(<<"\"events\": ">> \o JsonEvents(details.events))>> ELSE <<>>)
    IN  <<"{">> \o join(entries, <<", ">>) \o <<"}">>

(* the f-string of the prompt *)
LLMPrompt(issue) ==
    <<"Analyze the following issue in a Kubernetes cluster: Resource: ",
      issue.resource_type, " \"", issue.resource_name, "\" in namespace \"",
      issue.namespace, "\" Cluster: ", issue.cluster,
      " Issue type: ", issue.issue_type, " Additional details: ">>
    \o json_dumps(issue.details)
    \o <<" Related events: ">> \o LLMEventsData(issue.details)
    \o <<" Logs (excerpt): ">> \o LLMLogsExcerpt(issue.details)
    \o <<" Please provide: 1. A clear and concise diagnosis of the issue",
         " 2. Specific recommendations to resolve the issue">>

(* "Extract diagnosis and recommendations" *)
LLMParse(llm_response) ==
    LET diagnosis_marker == <<"diagnosis">>
        recommendation_marker == <<"recommendations">>
        parts == split(lower(llm_response), recommendation_marker)
    IN  IF Len(parts) >= 2
        THEN LET diagnosis_part == parts[1]
                 recommendations_part == recommendation_marker \o parts[2]
             IN  Analysis(IF Occurs(diagnosis_part, diagnosis_marker) # {}
                          THEN strip(split(diagnosis_part, diagnosis_marker)[2])
                          ELSE strip(diagnosis_part),
                          strip(recommendations_part))
        ELSE Analysis(llm_response, <<>>)

(* the else branch returning the message without the status *)
LLMStatusDegraded_NoStatus(status) ==
    Analysis(Str("Could not analyze the issue"),
             Str("Review logs and events manually."))

(* the else branch of `if response.status == 200:` *)
LLMStatusDegraded(status) ==
    Analysis(<<"Could not analyze the issue (Error ", ToString(status), ")">>,
             Str("Review logs and events manually."))

(* the except clause *)
LLMDegraded ==
    Analysis(Str("Error processing the issue with LLM"),
             Str("Review manually or try again later."))

LLMMissingKey(issue) ==
    IF ~HasKey(issue, "resource_type") THEN KeyError("resource_type")
    ELSE IF ~HasKey(issue, "resource_name") THEN KeyError("resource_name")
    ELSE IF ~HasKey(issue, "issue_type") THEN KeyError("issue_type")
    ELSE IF ~HasKey(issue, "details") THEN KeyError("details")
    ELSE IF ~HasKey(issue, "namespace") THEN KeyError("namespace")
    ELSE IF ~HasKey(issue, "cluster") THEN KeyError("cluster")
    ELSE Ok(<<>>)

(* the try block reading the details with a default of {} *)
LLMTry_DetailsOptional(issue, llm) ==
    LET whole == IF HasKey(issue, "details") THEN issue
                 ELSE [f \in DOMAIN issue \cup {"details"} |->
                          IF f = "details" THEN <<>> ELSE issue[f]]
        k == LLMMissingKey(whole)
    IN
    IF k.raised THEN Analyzed(TRUE, k.val, <<>>)
    ELSE LET prompt == LLMPrompt(whole) IN
         IF llm.kind = "error" THEN Analyzed(TRUE, llm.error, <<prompt>>)
         ELSE IF llm.status = 200
         THEN (IF llm.body.kind = "text"
               THEN Analyzed(FALSE, LLMParse(llm.body.text), <<prompt>>)
               ELSE IF llm.body.kind = "malformed"
               THEN Analyzed(TRUE, Str("Expecting value: line 1 column 1 (char 0)"),
                             <<prompt>>)
               ELSE Analyzed(TRUE, Str("list index out of range"), <<prompt>>))
         ELSE Analyzed(FALSE, LLMStatusDegraded(llm.status), <<prompt>>)

(* the body of the try block: raised when an exception leaves it.         *)
(* response.json() raises on a body that is not JSON, and                  *)
(* result["content"][0]["text"] on one without a content block             *)
LLMTry(issue, llm) ==
    LET k == LLMMissingKey(issue) IN
    IF k.raised THEN Analyzed(TRUE, k.val, <<>>)
    ELSE LET prompt == LLMPrompt(issue) IN
         IF llm.kind = "error" THEN Analyzed(TRUE, llm.error, <<prompt>>)
         ELSE IF llm.status = 200
         THEN (IF llm.body.kind = "text"
               THEN Analyzed(FALSE, LLMParse(llm.body.text), <<prompt>>)
               ELSE IF llm.body.kind = "malformed"
               THEN Analyzed(TRUE, Str("Expecting value: line 1 column 1 (char 0)"),
                             <<prompt>>)
               ELSE Analyzed(TRUE, Str("list index out of range"), <<prompt>>))
         ELSE Analyzed(FALSE, LLMStatusDegraded(llm.status), <<prompt>>)

(* try: ... except Exception as e: ... *)
LLMProcessor_analyze_issue(issue, llm) ==
    LET t == LLMTry(issue, llm) IN
    IF t.raised THEN Analyzed(FALSE, LLMDegraded, t.requests) ELSE t

ClaudeAnalyzer == "ClaudeAnalyzer"
LLMProcessor == "LLMProcessor"
Analyzers == {ClaudeAnalyzer, LLMProcessor}

analyze_issue(an, issue, llm) ==
    IF an = ClaudeAnalyzer THEN ClaudeAnalyzer_analyze_issue(issue, llm)
    ELSE LLMProcessor_analyze_issue(issue, llm)

----------------------------------------------------------------------------
(* KubernetesMonitor.check_pod_health of main.py, and SlackNotifier *)

MainKubernetesMonitor == "main.KubernetesMonitor"

(* the issue dict of the restart branch of KubernetesMonitor in main.py;   *)
(* timestamp, the wall-clock time, is not part of the record               *)
RestartLoopIssue(cluster, ns, pod_name, container, restart_count, state, logs, events) ==
    [cluster |-> cluster, namespace |-> ns, resource_type |-> "Pod",
     resource_name |-> pod_name, container |-> container, issue_type |-> "RestartLoop",
     details |-> [restart_count |-> restart_count, state |-> state,
                  logs |-> logs, events |-> events]]

(* the issue dict of its Pending / CrashLoopBackOff branch *)
DeploymentIssue(cluster, ns, pod_name, phase, events) ==
    [cluster |-> cluster, namespace |-> ns, resource_type |-> "Pod",
     resource_name |-> pod_name, issue_type |-> "DeploymentIssue",
     details |-> [phase |-> phase, conditions |-> None, events |-> events]]

(* str(container_status.state) *)
StateStr(state) == <<"state: ", state.kind>>

(* `for container_status in pod_status.container_statuses or []:` with the *)
(* restart threshold; neither the log read nor the event listing is in a   *)
(* try block of its own. first_timestamp and last_timestamp of an event    *)
(* are not part of the record                                              *)
RECURSIVE MainRestartLoop(_, _, _, _, _, _)
MainRestartLoop(cl, a, ns, pod, i, acc) ==
    IF i > Len(pod.container_statuses) THEN acc
    ELSE LET container_status == pod.container_statuses[i]
             restart_count == container_status.restart_count
         IN
         IF ~(restart_count > RestartThreshold)
         THEN MainRestartLoop(cl, a, ns, pod, i + 1, acc)
         ELSE LET lg == read_namespaced_pod_log(a, pod.name, container_status.name)
                  ev == list_namespaced_event(a, pod.name)
                  c1 == acc.calls \o <<LogCall(pod.name, container_status.name)>>
                  c2 == c1 \o <<EventCall(pod.name)>>
              IN
              IF lg.raised THEN Step(TRUE, acc.issues, c1)
              ELSE IF ev.raised THEN Step(TRUE, acc.issues, c2)
              ELSE MainRestartLoop(cl, a, ns, pod, i + 1,
                       Step(FALSE,
                            Append(acc.issues,
                                RestartLoopIssue(cl, ns, pod.name, container_status.name,
                                                 restart_count,
                                                 StateStr(container_status.state),
                                                 lg.val, event_messages(ev.val))),
                            c2))

(* pod_status.phase == "Pending" or any(... reason == "CrashLoopBackOff") *)
MainDeploymentCheck(pod) ==
    \/ pod.phase = Str("Pending")
    \/ \E k \in 1..Len(pod.container_statuses) :
          /\ pod.container_statuses[k].state.kind = "waiting"
          /\ pod.container_statuses[k].state.reason = Str("CrashLoopBackOff")

(* one iteration of `for pod in pods.items:` *)
MainProcessPod(cl, a, ns, pod) ==
    LET r == MainRestartLoop(cl, a, ns, pod, 1, Step(FALSE, <<>>, <<>>)) IN
    IF r.raised \/ ~MainDeploymentCheck(pod) THEN r
    ELSE LET ev == list_namespaced_event(a, pod.name)
             cs == r.calls \o <<EventCall(pod.name)>>
         IN  IF ev.raised THEN Step(TRUE, r.issues, cs)
             ELSE Step(FALSE,
                       Append(r.issues,
                              DeploymentIssue(cl, ns, pod.name, pod.phase,
                                              event_messages(ev.val))),
                       cs)

RECURSIVE MainPodLoop(_, _, _, _, _, _)
MainPodLoop(cl, a, ns, pods, i, acc) ==
    IF i > Len(pods) THEN acc
    ELSE LET st == MainProcessPod(cl, a, ns, pods[i]) IN
         IF st.raised THEN Step(TRUE, acc.issues \o st.issues, acc.calls \o st.calls)
         ELSE MainPodLoop(cl, a, ns, pods, i + 1,
                          Step(FALSE, acc.issues \o st.issues, acc.calls \o st.calls))

(* check_pod_health(cluster_name, namespace) *)
main_check_pod_health(cls, cl, a, ns) ==
    IF cl \notin cls
    THEN [raised |-> FALSE, val |-> <<>>, calls |-> <<>>]
    ELSE
    LET ls == list_namespaced_pod(a) IN
    IF ls.raised THEN [raised |-> TRUE, val |-> <<>>, calls |-> <<ListCall(ns)>>]
    ELSE LET r == MainPodLoop(cl, a, ns, ls.val, 1, Step(FALSE, <<>>, <<ListCall(ns)>>)) IN
         [raised |-> r.raised, val |-> IF r.raised THEN <<>> ELSE r.issues,
          calls |-> r.calls]

(* what chat_postMessage does: it returns, raises SlackApiError, or raises *)
(* another exception, as on a connection that cannot be opened             *)
SlackOutcomes == {"ok", "SlackApiError", "URLError"}

(* send_alert(issue, diagnosis, recommendations): True when the message    *)
(* was posted, False when SlackApiError was caught; every other exception  *)
(* of the try block leaves it                                              *)
send_alert(issue, diagnosis, recommendations, slack) ==
    IF ~HasKey(issue, "resource_type") THEN KeyError("resource_type")
    ELSE IF ~HasKey(issue, "resource_name") THEN KeyError("resource_name")
    ELSE IF ~HasKey(issue, "cluster") THEN KeyError("cluster")
    ELSE IF ~HasKey(issue, "namespace") THEN KeyError("namespace")
    ELSE IF ~HasKey(issue, "issue_type") THEN KeyError("issue_type")
    ELSE IF ~HasKey(issue, "details") THEN KeyError("details")
    ELSE IF slack = "ok" THEN Ok(TRUE)
    ELSE IF slack = "SlackApiError" THEN Ok(FALSE)
    ELSE Raise(slack)

----------------------------------------------------------------------------
(* What the sinks show of an alert: display_issue of display/pods.py and   *)
(* the blocks of SlackNotifier.send_alert                                  *)

DisplayLogLines == 10
DisplayEvents == 5
SlackLogLines == 5

(* what a sink showed: the text of its log panel or block, and the rows of *)
(* its event table                                                        *)
Rendered(r, error, logs, events) ==
    [raised |-> r, error |-> error, logs |-> logs, events |-> events]

NoRender == Rendered(FALSE, <<>>, <<>>, <<>>)

(* the panel "Recent Logs": the last 10 lines of the stripped text when it *)
(* has more than 10, the text as it is otherwise                           *)
display_logs(issue) ==
    IF HasKey(issue, "logs") /\ issue.logs # <<>>
    THEN LET log_lines == split(strip(issue.logs), <<"\n">>) IN
         IF Len(log_lines) > DisplayLogLines
         THEN join(LastN(log_lines, DisplayLogLines), <<"\n">>)
         ELSE issue.logs
    ELSE <<>>

(* table.add_row(type, reason, message, str(count)) *)
EventRow(event) == <<event.type, event.reason, event.message, ToString(event.count)>>

(* the table "Recent Events": `for event in events[:5]:` *)
display_events(issue) ==
    IF HasKey(issue, "events") /\ issue.events # <<>>
    THEN LET shown == FirstN(issue.events, DisplayEvents) IN
         [i \in 1..Len(shown) |-> EventRow(shown[i])]
    ELSE <<>>

(* display_issue(issue, analysis); detected_at is on every issue of the    *)
(* detectors                                                               *)
display_issue(issue, diagnosis) ==
    IF ~HasKey(issue, "issue_type") THEN Rendered(TRUE, KeyError("issue_type").val, <<>>, <<>>)
    ELSE IF ~HasKey(issue, "resource_name")
    THEN Rendered(TRUE, KeyError("resource_name").val, <<>>, <<>>)
    ELSE IF ~HasKey(issue, "namespace")
    THEN Rendered(TRUE, KeyError("namespace").val, <<>>, <<>>)
    ELSE IF ~HasKey(issue, "description")
    THEN Rendered(TRUE, KeyError("description").val, <<>>, <<>>)
    ELSE Rendered(FALSE, <<>>, display_logs(issue), display_events(issue))

(* the block "Relevant logs" of send_alert: the last 5 lines *)
slack_logs(issue) ==
    IF HasKey(issue.details, "logs") /\ issue.details.logs # <<>>
    THEN join(LastN(split(strip(issue.details.logs), <<"\n">>), SlackLogLines), <<"\n">>)
    ELSE <<>>

(* the blocks send_alert posts: sent is what send_alert did; no block      *)
(* shows the events                                                        *)
slack_blocks(issue, sent) ==
    IF sent.raised THEN Rendered(TRUE, sent.val, <<>>, <<>>)
    ELSE IF ~sent.val THEN Rendered(TRUE, Str("SlackApiError"), <<>>, <<>>)
    ELSE Rendered(FALSE, <<>>, slack_logs(issue), <<>>)

----------------------------------------------------------------------------
(* The responses the cluster API is taken to give *)

BackOffEvent ==
    [type |-> "Warning", reason |-> "BackOff",
     message |-> "Back-off restarting failed container", count |-> 3]

Api(list_fails, pods, logs_fail, events_fail) ==
    [list_fails |-> list_fails, pods |-> pods, logs_fail |-> logs_fail,
     events_fail |-> events_fail, events |-> <<BackOffEvent>>]

(* namespaces of several pods, each of one of a few kinds *)
PodKinds(name) ==
    {MkPod(name, Str("Running"), <<MkStatus(Running, RestartThreshold)>>, 1),
     MkPod(name, Str("Running"), <<MkStatus(Waiting(Str("CrashLoopBackOff")), 10)>>, 1),
     MkPod(name, Str("Running"), <<MkStatus(Waiting(Str("ImagePullBackOff")), 0)>>, 1),
     MkPod(name, Str("Running"),
           [i \in 1..MaxContainers |-> MkStatus(Running, RestartThreshold + 1)],
           MaxContainers),
     MkPod(name, Str("Pending"), <<>>, 1),
     MkPod(name, Str("Running"), <<MkStatus(Waiting(None), 0)>>, 1)}

PodLists ==
    UNION {{ps \in [1..n -> UNION {PodKinds(PodNames[i]) : i \in 1..MaxPods}] :
               \A i \in 1..n : ps[i].name = PodNames[i]} : n \in 0..MaxPods}

NamesOf(ps) == {ps[i].name : i \in 1..Len(ps)}

ListApis ==
    {Api(FALSE, t[1], t[2], t[3]) :
        t \in {u \in PodLists \X (SUBSET {PodNames[i] : i \in 1..MaxPods})
                       \X (SUBSET {PodNames[i] : i \in 1..MaxPods}) :
                  u[2] \subseteq NamesOf(u[1]) /\ u[3] \subseteq NamesOf(u[1])}}

(* the namespaces monitor_pods meets: healthy pods, pods that cannot pull  *)
(* their image and pods whose containers keep restarting; the log API is   *)
(* up or down as a whole                                                   *)
ScanKinds(name) ==
    {MkPod(name, Str("Running"), <<MkStatus(Running, RestartThreshold)>>, 1),
     MkPod(name, Str("Running"), <<MkStatus(Waiting(Str("ImagePullBackOff")), 0)>>, 1),
     MkPod(name, Str("Running"),
           [i \in 1..MaxContainers |-> MkStatus(Running, RestartThreshold + 1)],
           MaxContainers)}

ScanLists ==
    UNION {{ps \in [1..n -> UNION {ScanKinds(PodNames[i]) : i \in 1..MaxPods}] :
               \A i \in 1..n : ps[i].name = PodNames[i]} : n \in 0..MaxPods}

ScanApis ==
    {Api(FALSE, t[1], t[2], t[3]) :
        t \in {u \in ScanLists \X (SUBSET {PodNames[i] : i \in 1..MaxPods})
                       \X (SUBSET {PodNames[i] : i \in 1..MaxPods}) :
                  u[2] \in {{}, NamesOf(u[1])} /\ u[3] \subseteq NamesOf(u[1])}}

FailedListApi == Api(TRUE, <<>>, {}, {})

Scanned(ns, failed) == [namespace |-> ns, list_failed |-> failed]

NoApi == Api(FALSE, <<>>, {}, {})

----------------------------------------------------------------------------
(* The issues and the endpoint answers analyze_issue is called with *)

MaxSegments == 4
MaxOver == 1

(* a dict without the key k *)
Without(d, k) == [f \in DOMAIN d \ {k} |-> d[f]]

(* a text of n characters on one line, and one of n lines *)
Chars(n) == [i \in 1..n |-> "ch" \o ToString(i)]
Lines(n) == Concat([i \in 1..n |-> <<"ln" \o ToString(i), "\n">>])

LogTexts ==
    {<<>>, read_namespaced_pod_log(NoApi, PodNames[1], ContainerNames[1]).val,
     CouldNotGetLogs(Str("ApiException"))}
    \cup {Chars(n) : n \in {1, LogTailChars} \cup (LogTailChars + 1)..(LogTailChars + MaxOver)}
    \cup {Lines(n) : n \in {1, LogTailLines} \cup (LogTailLines + 1)..(LogTailLines + MaxOver)}

Events(n) ==
    [i \in 1..n |-> [type |-> "Warning", reason |-> "BackOff",
                     message |-> "msg" \o ToString(i), count |-> i]]

EventLists == {Events(n) : n \in 0..(EventCap + MaxOver)}

(* an issue of monitor/pods.py, of k8s/monitor.py and of main.py *)
PodIssue(logs, events) ==
    Issue(PodMonitor, NamespaceNames[1], PodNames[1], "ImagePullBackOff", "High",
          Str("Pod has ImagePullBackOff error"), logs, events)

ClusterIssue(logs, events) ==
    Issue(KubernetesMonitor, NamespaceNames[1], PodNames[1], "ImagePullBackOff", "High",
          Str("Pod has ImagePullBackOff error"), logs, events)

LegacyIssue(logs, events) ==
    RestartLoopIssue(cluster_name, NamespaceNames[1], PodNames[1], ContainerNames[1],
                     RestartThreshold + 1, Str("running"), logs, events)

IssueShapes(logs, events) ==
    {PodIssue(logs, events), ClusterIssue(logs, events), LegacyIssue(logs, events),
     DeploymentIssue(cluster_name, NamespaceNames[1], PodNames[1], Str("Pending"), events)}

IssueInputs ==
    LET whole == IssueShapes(Chars(1), Events(1)) IN
    whole \cup {Without(i, k) : i \in whole,
                k \in {"resource_type", "resource_name", "issue_type", "namespace",
                       "description", "logs", "events"}}

Segments ==
    {<<"Diagnosis", ":">>, <<"Recommendations", ":">>, <<"Recommendations">>,
     <<" ">>, <<"X">>}

(* the response texts: up to MaxSegments segments in a row *)
ResponseTexts ==
    {Concat(sq) : sq \in UNION {[1..n -> Segments] : n \in 0..MaxSegments}}

Statuses == {200, 429, 500}

LLMOutcomes ==
    {NetworkError}
    \cup {Response(st, b) : st \in Statuses,
                            b \in {Malformed, NoContent, Text(<<"Diagnosis", ":", " ", "X">>)}}

Input(issue, llm) == [called |-> TRUE, issue |-> issue, llm |-> llm]
NoInput == [called |-> FALSE]

AnalyzeInputs ==
    {Input(i, o) : i \in IssueInputs, o \in LLMOutcomes}
    \cup {Input(i, Response(200, Text(r))) :
             i \in {PodIssue(Chars(1), Events(1)), LegacyIssue(Chars(1), Events(1))},
             r \in ResponseTexts}
    \cup {Input(i, Response(200, Text(<<"Diagnosis", ":", " ", "X">>))) :
             i \in UNION {IssueShapes(lg, ev) : lg \in LogTexts, ev \in EventLists}}

(* the endpoint answers monitor_pods meets *)
ScanOutcomes ==
    {NetworkError, Response(500, Malformed),
     Response(200, Text(<<"Diagnosis", ":", " ", "X", " ", "Recommendations", ":", " ", "X">>))}

NoAnalysis == Analyzed(FALSE, Analysis(<<>>, <<>>), <<>>)

(* a step of a scan loop: the call of check_pod_health on a namespace with *)
(* the number of issues it returned, the analysis of an issue with the     *)
(* number of requests sent, or the dispatch of its alert (display_issue,   *)
(* send_alert) with 1 for its return and 0 for its exception               *)
TraceStep(step, cy, ns, issue, n) ==
    [step |-> step, cycle |-> cy, namespace |-> ns, issue |-> issue, n |-> n]

----------------------------------------------------------------------------
(* check_pod_health of either detector, called once on a namespace *)

InitDetect ==
    /\ impl \in Impls
    /\ clusters \in IF impl = KubernetesMonitor THEN {{}, {cluster_name}} ELSE {{}}
    /\ pc = "call"
    /\ namespaces = <<NamespaceNames[1]>>
    /\ nsIdx = 1
    /\ api = NoApi
    /\ issues = <<>>
    /\ raised = FALSE
    /\ calls = <<>>
    /\ issueIdx = 1
    /\ total_issues = 0
    /\ scanned = <<>>
    /\ displayed = <<>>
    /\ analyzer = "none"
    /\ input = NoInput
    /\ analysis = NoAnalysis
    /\ trace = <<>>
    /\ cycle = 1
    /\ rendered = NoRender

(* what the call leaves: r is what check_pod_health returned on a *)
CallReturns(a, r) ==
    /\ issues' = r.val
    /\ raised' = r.raised
    /\ calls' = r.calls
    /\ scanned' = Append(scanned, Scanned(namespaces[nsIdx], r.raised /\ a.list_fails))

Call(a) ==
    /\ pc = "call"
    /\ CallReturns(a, check_pod_health(impl, clusters, a, namespaces[nsIdx]))
    /\ api' = a
    /\ pc' = "returned"
    /\ UNCHANGED <<impl, clusters, namespaces, nsIdx, issueIdx, total_issues, displayed,
                   analyzer, input, analysis, trace, cycle, rendered>>

(* a namespace that holds one pod, of any snapshot *)
CallOnePod ==
    /\ pc = "call"
    /\ \E ph \in Phases, sq \in StatusSeqs,
          lf \in SUBSET {PodNames[1]}, ef \in SUBSET {PodNames[1]} :
          \E d \in DeclCounts(sq) :
              Call(Api(FALSE, <<MkPod(PodNames[1], ph, sq, d)>>, lf, ef))

(* a namespace of several pods, each of one of a few kinds *)
CallPodList == pc = "call" /\ \E a \in ListApis : Call(a)

CallListFails == Call(FailedListApi)

----------------------------------------------------------------------------
(* monitor_pods, the scan loop over the namespaces *)

InitScan ==
    /\ impl = PodMonitor
    /\ clusters = {}
    /\ pc = "scan"
    /\ namespaces \in {[i \in 1..n |-> NamespaceNames[i]] : n \in 0..MaxNamespaces}
    /\ nsIdx = 1
    /\ api = NoApi
    /\ issues = <<>>
    /\ raised = FALSE
    /\ calls = <<>>
    /\ issueIdx = 1
    /\ total_issues = 0
    /\ scanned = <<>>
    /\ displayed = <<>>
    /\ analyzer \in {"none", ClaudeAnalyzer}
    /\ input = NoInput
    /\ analysis = NoAnalysis
    /\ trace = <<>>
    /\ cycle = 1
    /\ rendered = NoRender

(* what the call leaves in monitor_pods: r is what check_pod_health        *)
(* returned on a, and rethrown tells whether an exception it caught        *)
(* reaches monitor_pods                                                    *)
ScanReturns(a, r, rethrown) ==
    /\ issues' = r.val
    /\ raised' = r.raised
    /\ calls' = r.calls
    /\ total_issues' = total_issues + Len(r.val)
    /\ pc' = IF rethrown /\ r.raised THEN "error" ELSE "issues"
    /\ scanned' = Append(scanned, Scanned(namespaces[nsIdx], r.raised /\ a.list_fails))
    /\ trace' = Append(trace, TraceStep("check_pod_health", 1, namespaces[nsIdx], 0,
                                        Len(r.val)))

(* the call with a failed listing reaching the except clause of            *)
(* monitor_pods instead of returning                                       *)
Scan_AbortOnError(a) ==
    /\ pc = "scan"
    /\ nsIdx <= Len(namespaces)
    /\ ScanReturns(a, check_pod_health(impl, clusters, a, namespaces[nsIdx]), TRUE)
    /\ api' = a
    /\ issueIdx' = 1
    /\ displayed' = <<>>
    /\ input' = NoInput
    /\ analysis' = NoAnalysis
    /\ UNCHANGED <<impl, clusters, namespaces, nsIdx, analyzer, cycle, rendered>>

(* issues = pod_monitor.check_pod_health(namespace); total_issues += ... *)
Scan(a) ==
    /\ pc = "scan"
    /\ nsIdx <= Len(namespaces)
    /\ ScanReturns(a, check_pod_health(impl, clusters, a, namespaces[nsIdx]), FALSE)
    /\ api' = a
    /\ issueIdx' = 1
    /\ displayed' = <<>>
    /\ input' = NoInput
    /\ analysis' = NoAnalysis
    /\ UNCHANGED <<impl, clusters, namespaces, nsIdx, analyzer, cycle, rendered>>

ScanNamespace == pc = "scan" /\ \E a \in ScanApis : Scan(a)

ScanListFails == Scan(FailedListApi)

(* the analysis of the else branch: no analyzer was constructed *)
NoAnalyzerAnalysis ==
    Analysis(Str("No se pudo realizar el analisis"),
             Str("Configure la variable de entorno ANTHROPIC_API_KEY para habilitar el analisis con Claude AI."))

(* the analysis of the except clause around analyze_issue_sync *)
AnalyzerErrorAnalysis ==
    Analysis(Str("Error al analizar con Claude AI"),
             Str("Se requiere una conexion activa con Claude AI para analizar este problema."))

(* `if claudeAnalyzer: try: analysis = ... except ...: ... else: ...` *)
AnalysisStep(an, issue, llm) ==
    IF an = "none" THEN Analyzed(FALSE, NoAnalyzerAnalysis, <<>>)
    ELSE LET c == analyze_issue(an, issue, llm) IN
         IF c.raised THEN Analyzed(FALSE, AnalyzerErrorAnalysis, c.requests) ELSE c

(* the steps of one iteration in the order they are made: r is what the    *)
(* analysis returned, display_first tells whether display_issue was called *)
(* before it                                                               *)
IssueSteps(r, display_ok, display_first) ==
    LET analysed == TraceStep("analysis", 1, namespaces[nsIdx], issueIdx, Len(r.requests))
        shown == TraceStep("display_issue", 1, namespaces[nsIdx], issueIdx,
                           IF display_ok THEN 1 ELSE 0)
    IN  IF display_first THEN <<shown, analysed>> ELSE <<analysed, shown>>

(* what one iteration leaves *)
IssueProcessed(issue, llm, display_ok, r, display_first) ==
    /\ analysis' = r
    /\ input' = IF analyzer = "none" THEN NoInput ELSE Input(issue, llm)
    /\ trace' = trace \o IssueSteps(r, display_ok, display_first)
    /\ IF display_ok
       THEN /\ displayed' = Append(displayed, issue)
            /\ issueIdx' = issueIdx + 1
            /\ pc' = pc
       ELSE /\ pc' = "error"
            /\ UNCHANGED <<displayed, issueIdx>>

(* the iteration with display_issue called before the analysis is made *)
ProcessIssue_DisplayFirst ==
    /\ pc = "issues"
    /\ issueIdx <= Len(issues)
    /\ \E llm \in ScanOutcomes, display_ok \in BOOLEAN :
        IssueProcessed(issues[issueIdx], llm, display_ok,
                       AnalysisStep(analyzer, issues[issueIdx], llm), TRUE)
    /\ UNCHANGED <<impl, clusters, namespaces, nsIdx, api, issues, raised, calls,
                   total_issues, scanned, analyzer, cycle, rendered>>

(* one iteration of `for issue in issues:`: the analysis, then             *)
(* display_issue; an exception of display_issue leaves both loops for the  *)
(* except clause of monitor_pods                                           *)
ProcessIssue ==
    /\ pc = "issues"
    /\ issueIdx <= Len(issues)
    /\ \E llm \in ScanOutcomes, display_ok \in BOOLEAN :
        IssueProcessed(issues[issueIdx], llm, display_ok,
                       AnalysisStep(analyzer, issues[issueIdx], llm), FALSE)
    /\ UNCHANGED <<impl, clusters, namespaces, nsIdx, api, issues, raised, calls,
                   total_issues, scanned, analyzer, cycle, rendered>>

(* progress.advance(task), and on to the next namespace. Nothing reads    *)
(* the finished iteration's list before the next one rebinds it: it and    *)
(* the record of the finished call are cleared                             *)
Advance ==
    /\ pc = "issues"
    /\ issueIdx > Len(issues)
    /\ nsIdx' = nsIdx + 1
    /\ pc' = "scan"
    /\ api' = NoApi
    /\ issues' = <<>>
    /\ raised' = FALSE
    /\ calls' = <<>>
    /\ displayed' = <<>>
    /\ issueIdx' = 1
    /\ input' = NoInput
    /\ analysis' = NoAnalysis
    /\ UNCHANGED <<impl, clusters, namespaces, total_issues, scanned, analyzer, trace,
                   cycle, rendered>>

(* the summary panel after the loop *)
Summary ==
    /\ pc = "scan"
    /\ nsIdx > Len(namespaces)
    /\ pc' = "done"
    /\ UNCHANGED <<impl, clusters, namespaces, nsIdx, api, issues, raised, calls, issueIdx,
                   total_issues, scanned, displayed, analyzer, input, analysis, trace,
                   cycle, rendered>>

----------------------------------------------------------------------------
(* analyze_issue of either analysis client, called once *)

InitAnalyze ==
    /\ impl = PodMonitor
    /\ clusters = {}
    /\ pc = "analyze"
    /\ namespaces = <<NamespaceNames[1]>>
    /\ nsIdx = 1
    /\ api = NoApi
    /\ issues = <<>>
    /\ raised = FALSE
    /\ calls = <<>>
    /\ issueIdx = 1
    /\ total_issues = 0
    /\ scanned = <<>>
    /\ displayed = <<>>
    /\ analyzer \in Analyzers
    /\ input \in AnalyzeInputs
    /\ analysis = NoAnalysis
    /\ trace = <<>>
    /\ cycle = 1
    /\ rendered = NoRender

Analyze ==
    /\ pc = "analyze"
    /\ analysis' = analyze_issue(analyzer, input.issue, input.llm)
    /\ pc' = "analyzed"
    /\ UNCHANGED <<impl, clusters, namespaces, nsIdx, api, issues, raised, calls, issueIdx,
                   total_issues, scanned, displayed, analyzer, input, trace, cycle, rendered>>

----------------------------------------------------------------------------
(* check_pod_health(cluster_name, namespace) of main.py, called once on a  *)
(* namespace of the configured cluster                                     *)

InitLegacy ==
    /\ impl = MainKubernetesMonitor
    /\ clusters = {cluster_name}
    /\ pc = "call"
    /\ namespaces = <<NamespaceNames[1]>>
    /\ nsIdx = 1
    /\ api = NoApi
    /\ issues = <<>>
    /\ raised = FALSE
    /\ calls = <<>>
    /\ issueIdx = 1
    /\ total_issues = 0
    /\ scanned = <<>>
    /\ displayed = <<>>
    /\ analyzer = LLMProcessor
    /\ input = NoInput
    /\ analysis = NoAnalysis
    /\ trace = <<>>
    /\ cycle = 1
    /\ rendered = NoRender

(* what the call on a leaves *)
LegacyReturns(a) ==
    /\ CallReturns(a, main_check_pod_health(clusters, cluster_name, a, namespaces[nsIdx]))
    /\ api' = a
    /\ pc' = "returned"
    /\ UNCHANGED <<impl, clusters, namespaces, nsIdx, issueIdx, total_issues, displayed,
                   analyzer, input, analysis, trace, cycle, rendered>>

(* the namespaces of the call: one pod of any phase and container          *)
(* statuses, several pods of a few kinds, or a listing that fails          *)
LegacyCall ==
    /\ pc = "call"
    /\ \/ \E ph \in Phases, sq \in StatusSeqs,
             lf \in SUBSET {PodNames[1]}, ef \in SUBSET {PodNames[1]} :
             LegacyReturns(Api(FALSE, <<MkPod(PodNames[1], ph, sq, Len(sq))>>, lf, ef))
       \/ \E a \in ListApis : LegacyReturns(a)
       \/ LegacyReturns(FailedListApi)

----------------------------------------------------------------------------
(* An alert handed to a sink: display_issue on the terminal for the issues *)
(* of monitor/pods.py, send_alert to Slack for those of main.py            *)

RenderLogs ==
    {<<>>} \cup {Lines(n) : n \in {1, SlackLogLines, DisplayLogLines}
                              \cup (SlackLogLines + 1)..(SlackLogLines + MaxOver)
                              \cup (DisplayLogLines + 1)..(DisplayLogLines + MaxOver)}

RenderEvents == {Events(n) : n \in 0..(DisplayEvents + MaxOver)}

RenderIssues(im) ==
    IF im = PodMonitor
    THEN {PodIssue(lg, ev) : lg \in RenderLogs, ev \in RenderEvents}
         \cup {Without(PodIssue(Lines(1), Events(1)), k) :
                  k \in {"issue_type", "resource_name", "namespace", "description",
                         "logs", "events"}}
    ELSE {LegacyIssue(lg, ev) : lg \in RenderLogs, ev \in RenderEvents}
         \cup {DeploymentIssue(cluster_name, NamespaceNames[1], PodNames[1], Str("Pending"), ev) :
                  ev \in RenderEvents}
         \cup {Without(LegacyIssue(Lines(1), Events(1)), k) : k \in {"cluster", "details"}}

InitRender ==
    /\ impl \in {PodMonitor, MainKubernetesMonitor}
    /\ clusters = {}
    /\ pc = "render"
    /\ namespaces = <<NamespaceNames[1]>>
    /\ nsIdx = 1
    /\ api = NoApi
    /\ issues = <<>>
    /\ raised = FALSE
    /\ calls = <<>>
    /\ issueIdx = 1
    /\ total_issues = 0
    /\ scanned = <<>>
    /\ displayed = <<>>
    /\ analyzer = IF impl = PodMonitor THEN ClaudeAnalyzer ELSE LLMProcessor
    /\ \E issue \in RenderIssues(impl) : input = Input(issue, NetworkError)
    /\ analysis = NoAnalysis
    /\ trace = <<>>
    /\ cycle = 1
    /\ rendered = NoRender

(* display_issue(issue, analysis) of monitor_pods *)
DisplayIssue ==
    /\ pc = "render"
    /\ impl = PodMonitor
    /\ rendered' = display_issue(input.issue, analysis.val)
    /\ pc' = "rendered"
    /\ UNCHANGED <<impl, clusters, namespaces, nsIdx, api, issues, raised, calls, issueIdx,
                   total_issues, scanned, displayed, analyzer, input, analysis, trace, cycle>>

(* send_alert(issue, diagnosis, recommendations) of process_issue *)
SendAlert ==
    /\ pc = "render"
    /\ impl = MainKubernetesMonitor
    /\ \E slack \in SlackOutcomes :
        rendered' = slack_blocks(input.issue,
                                 send_alert(input.issue, analysis.val.diagnosis,
                                            analysis.val.recommendations, slack))
    /\ pc' = "rendered"
    /\ UNCHANGED <<impl, clusters, namespaces, nsIdx, api, issues, raised, calls, issueIdx,
                   total_issues, scanned, displayed, analyzer, input, analysis, trace, cycle>>

----------------------------------------------------------------------------
(* KubernetesAssistant.monitor_all_clusters of main.py: the clusters, the  *)
(* namespaces, the issues, then the sleep, for ever                        *)

MaxCycles == 2

(* namespaces = ["default", "kube-system", "production", "staging"] *)
AssistantNamespaces == <<"default", "kube-system", "production", "staging">>

(* the namespaces monitor_all_clusters meets: a healthy pod, a pod in      *)
(* CrashLoopBackOff that restarted ten times, with its events listed or    *)
(* not, and a failed listing                                               *)
AssistantApis ==
    {Api(FALSE, <<MkPod(PodNames[1], Str("Running"),
                        <<MkStatus(Running, RestartThreshold)>>, 1)>>, {}, {}),
     Api(FALSE, <<MkPod(PodNames[1], Str("Running"),
                        <<MkStatus(Waiting(Str("CrashLoopBackOff")), 10)>>, 1)>>, {}, {}),
     Api(FALSE, <<MkPod(PodNames[1], Str("Running"),
                        <<MkStatus(Waiting(Str("CrashLoopBackOff")), 10)>>, 1)>>,
         {}, {PodNames[1]}),
     FailedListApi}

AssistantOutcomes ==
    {NetworkError,
     Response(200, Text(<<"Diagnosis", ":", " ", "X", " ", "Recommendations", ":", " ", "X">>))}

(* the clusters KubernetesMonitor.__init__ could configure: "dev" of       *)
(* cluster_configs, or none                                                *)
InitAssistant ==
    /\ impl = MainKubernetesMonitor
    /\ clusters \in {{}, {cluster_name}}
    /\ pc = IF clusters = {} THEN "sleep" ELSE "check"
    /\ namespaces = AssistantNamespaces
    /\ nsIdx = 1
    /\ api = NoApi
    /\ issues = <<>>
    /\ raised = FALSE
    /\ calls = <<>>
    /\ issueIdx = 1
    /\ total_issues = 0
    /\ scanned = <<>>
    /\ displayed = <<>>
    /\ analyzer = LLMProcessor
    /\ input = NoInput
    /\ analysis = NoAnalysis
    /\ trace = <<>>
    /\ cycle = 1
    /\ rendered = NoRender

(* the call of a detector that remembers what it reported: after the first *)
(* cycle it reports nothing again                                          *)
AssistantChecked_Dedup(r) ==
    /\ issues' = IF cycle > 1 THEN <<>> ELSE r.val
    /\ raised' = r.raised
    /\ calls' = r.calls
    /\ trace' = Append(trace, TraceStep("check_pod_health", cycle, namespaces[nsIdx], 0,
                                        IF cycle > 1 THEN 0 ELSE Len(r.val)))

(* what the call leaves: r is what check_pod_health returned *)
AssistantChecked(r) ==
    /\ issues' = r.val
    /\ raised' = r.raised
    /\ calls' = r.calls
    /\ trace' = Append(trace, TraceStep("check_pod_health", cycle, namespaces[nsIdx], 0,
                                        Len(r.val)))

(* issues = self.k8s_monitor.check_pod_health(cluster_name, namespace) *)
AssistantCheck ==
    /\ pc = "check"
    /\ nsIdx <= Len(namespaces)
    /\ \E a \in AssistantApis :
        /\ AssistantChecked(main_check_pod_health(clusters, cluster_name, a,
                                                  namespaces[nsIdx]))
        /\ api' = a
    /\ issueIdx' = 1
    /\ displayed' = <<>>
    /\ input' = NoInput
    /\ analysis' = NoAnalysis
    /\ pc' = "process"
    /\ UNCHANGED <<impl, clusters, namespaces, nsIdx, total_issues, scanned, analyzer, cycle, rendered>>

(* what process_issue leaves: r is what analyze_issue returned and sent    *)
(* what send_alert did                                                     *)
IssueAlerted(issue, llm, r, sent) ==
    /\ analysis' = r
    /\ input' = Input(issue, llm)
    /\ trace' = trace \o
                 <<TraceStep("analysis", cycle, namespaces[nsIdx], issueIdx, Len(r.requests)),
                   TraceStep("send_alert", cycle, namespaces[nsIdx], issueIdx,
                             IF sent.raised THEN 0 ELSE 1)>>
    /\ IF sent.raised
       THEN /\ pc' = "error"
            /\ UNCHANGED <<displayed, issueIdx>>
       ELSE /\ displayed' = IF sent.val THEN Append(displayed, issue) ELSE displayed
            /\ issueIdx' = issueIdx + 1
            /\ pc' = pc

(* send_alert(issue=issue, diagnosis=diagnosis, recommendations=...) on    *)
(* the pair analyze_issue returned                                         *)
AlertAnalysed(issue, llm, slack, r) ==
    IssueAlerted(issue, llm, r,
                 send_alert(issue, r.val.diagnosis, r.val.recommendations, slack))

(* `await self.process_issue(issue)`: analyze_issue, then send_alert; an   *)
(* exception of send_alert leaves process_issue and monitor_all_clusters   *)
process_issue ==
    /\ pc = "process"
    /\ issueIdx <= Len(issues)
    /\ \E llm \in AssistantOutcomes, slack \in SlackOutcomes :
        AlertAnalysed(issues[issueIdx], llm, slack,
                      analyze_issue(analyzer, issues[issueIdx], llm))
    /\ UNCHANGED <<impl, clusters, namespaces, nsIdx, api, issues, raised, calls,
                   total_issues, scanned, analyzer, cycle, rendered>>

(* the next namespace, or the sleep after the last one *)
AssistantAdvance ==
    /\ pc = "process"
    /\ issueIdx > Len(issues)
    /\ nsIdx' = nsIdx + 1
    /\ pc' = IF nsIdx + 1 > Len(namespaces) THEN "sleep" ELSE "check"
    /\ api' = NoApi
    /\ issues' = <<>>
    /\ raised' = FALSE
    /\ calls' = <<>>
    /\ displayed' = <<>>
    /\ issueIdx' = 1
    /\ input' = NoInput
    /\ analysis' = NoAnalysis
    /\ UNCHANGED <<impl, clusters, namespaces, total_issues, scanned, analyzer, trace,
                   cycle, rendered>>

(* await asyncio.sleep(self.check_interval), and the next cycle *)
Sleep ==
    /\ pc = "sleep"
    /\ cycle < MaxCycles
    /\ cycle' = cycle + 1
    /\ nsIdx' = 1
    /\ pc' = IF clusters = {} THEN "sleep" ELSE "check"
    /\ UNCHANGED <<impl, clusters, namespaces, api, issues, raised, calls, issueIdx,
                   total_issues, scanned, displayed, analyzer, input, analysis, trace, rendered>>

(* The process is told to stop (SIGINT, SIGTERM) while monitor_all_clusters *)
(* runs: main.py installs no handler and the loop tests no flag, so the    *)
(* coroutine ends where it is, at the listing of a namespace, at the       *)
(* processing of an issue, or in the sleep                                 *)
Interrupt ==
    /\ impl = MainKubernetesMonitor
    /\ pc \in {"check", "process", "sleep"}
    /\ pc' = "interrupted"
    /\ UNCHANGED <<impl, clusters, namespaces, nsIdx, api, issues, raised, calls, issueIdx,
                   total_issues, scanned, displayed, analyzer, input, analysis, trace,
                   cycle, rendered>>

----------------------------------------------------------------------------
(* SpecDetect: one call of check_pod_health of either detector.           *)
(* SpecAnalyze: one call of analyze_issue of either analysis client.       *)
(* Spec: one call of check_pod_health on a namespace of several pods, one  *)
(* run of monitor_pods, or one run of monitor_all_clusters                 *)

NextDetect == CallOnePod \/ CallPodList \/ CallListFails

SpecDetect == InitDetect /\ [][NextDetect]_vars

NextAnalyze == Analyze

SpecAnalyze == InitAnalyze /\ [][NextAnalyze]_vars

Init == InitDetect \/ InitScan \/ InitAssistant

Next ==
    \/ CallPodList
    \/ CallListFails
    \/ ScanNamespace
    \/ ScanListFails
    \/ ProcessIssue
    \/ Advance
    \/ Summary
    \/ AssistantCheck
    \/ process_issue
    \/ AssistantAdvance
    \/ Sleep

Spec == Init /\ [][Next]_vars

(* SpecShutdown: one run of monitor_all_clusters that the process may be   *)
(* told to stop at any point                                               *)
NextShutdown ==
    \/ AssistantCheck
    \/ process_issue
    \/ AssistantAdvance
    \/ Sleep
    \/ Interrupt

SpecShutdown == InitAssistant /\ [][NextShutdown]_vars

NextLegacy == LegacyCall

SpecLegacy == InitLegacy /\ [][NextLegacy]_vars

NextRender ==
    \/ DisplayIssue
    \/ SendAlert

SpecRender == InitRender /\ [][NextRender]_vars

----------------------------------------------------------------------------
(* Vocabulary of the properties: predicates on a pod snapshot, in the      *)
(* words of the specification's rules                                      *)

StatusIssueTypes ==
    {"CrashLoopBackOff", "ImagePullBackOff", "CreateContainerError", "OOMKilled",
     "PodStatusIssue", "ContainerError"}

Returned == pc = "returned"

(* the pods the call listed *)
PodsOfCall ==
    IF calls = <<>> \/ api.list_fails THEN {}
    ELSE {api.pods[k] : k \in 1..Len(api.pods)}

IssuesOf(pod_name) == SelectSeq(issues, LAMBDA i : i.resource_name = pod_name)

WaitingWith(p, r) ==
    \E k \in 1..Len(p.container_statuses) :
        /\ p.container_statuses[k].state.kind = "waiting"
        /\ p.container_statuses[k].state.reason = Str(r)

WaitingOom(p) ==
    \E k \in 1..Len(p.container_statuses) :
        /\ p.container_statuses[k].state.kind = "waiting"
        /\ p.container_statuses[k].state.reason # None
        /\ In("OOMKilled", p.container_statuses[k].state.reason)

TerminatedOom(p) ==
    \E k \in 1..Len(p.container_statuses) :
        /\ p.container_statuses[k].state.kind = "terminated"
        /\ In("OOMKilled", p.container_statuses[k].state.reason)

ProblemPhase(p) ==
    \/ p.phase \in {Str("Pending"), Str("Failed"), Str("Unknown")}
    \/ p.phase # None /\ In("Error", p.phase)

GoodPhase(p) == p.phase # None /\ ~ProblemPhase(p)

ContainerProblem(cs) ==
    \/ cs.state.kind = "waiting"
    \/ cs.state.kind = "terminated" /\ cs.state.exit_code # 0

HasContainerProblem(p) ==
    \E k \in 1..Len(p.container_statuses) : ContainerProblem(p.container_statuses[k])

FirstProblem(p) ==
    p.container_statuses[
        CHOOSE k \in 1..Len(p.container_statuses) :
            /\ ContainerProblem(p.container_statuses[k])
            /\ \A j \in 1..(k - 1) : ~ContainerProblem(p.container_statuses[j])]

(* none of the reasons of rules 1-3 on any container *)
NoRule13(p) ==
    /\ ~WaitingWith(p, "CrashLoopBackOff")
    /\ ~WaitingWith(p, "ImagePullBackOff")
    /\ ~WaitingWith(p, "CreateContainerError")

(* none of the reasons of rules 1-4 on any container *)
NoRule14(p) == NoRule13(p) /\ ~WaitingOom(p) /\ ~TerminatedOom(p)

Includes(description, s) == \A k \in 1..Len(s) : In(s[k], description)

OverThreshold(p) ==
    SelectSeq(p.container_statuses, LAMBDA cs : cs.restart_count > RestartThreshold)

Healthy(p) ==
    /\ p.phase \in {Str("Running"), Str("Succeeded")}
    /\ ~HasContainerProblem(p)
    /\ \A k \in 1..Len(p.container_statuses) :
          p.container_statuses[k].restart_count <= RestartThreshold

StatusIssuesOf(pod_name) ==
    SelectSeq(IssuesOf(pod_name), LAMBDA i : i.issue_type \in StatusIssueTypes)

----------------------------------------------------------------------------
----------------------------------------------------------------------------
(* The type the single issue of a flagged pod has, by the order the claim  *)
(* gives and by the order of the elif chain                                *)
TypeByClaimedOrder(p) ==
    IF WaitingWith(p, "CrashLoopBackOff") THEN "CrashLoopBackOff"
    ELSE IF WaitingWith(p, "ImagePullBackOff") THEN "ImagePullBackOff"
    ELSE IF WaitingWith(p, "CreateContainerError") THEN "CreateContainerError"
    ELSE IF WaitingOom(p) THEN "OOMKilled"
    ELSE IF ProblemPhase(p) THEN "PodStatusIssue"
    ELSE "ContainerError"

TypeByCodeOrder(p) ==
    IF WaitingWith(p, "CrashLoopBackOff") THEN "CrashLoopBackOff"
    ELSE IF WaitingWith(p, "ImagePullBackOff") THEN "ImagePullBackOff"
    ELSE IF WaitingWith(p, "CreateContainerError") THEN "CreateContainerError"
    ELSE IF WaitingOom(p) THEN "OOMKilled"
    ELSE IF HasContainerProblem(p) THEN "ContainerError"
    ELSE "PodStatusIssue"

(* C2 as claimed: the issue of a flagged pod has the type of the first     *)
(* matching rule in the order CrashLoopBackOff, ImagePullBackOff,          *)
(* CreateContainerError, OOMKilled, PodStatusIssue, ContainerError. (Pods  *)
(* with a container terminated for OOMKilled are left to C5.)              *)
C2_ClaimedOrder ==
    Returned =>
        \A p \in PodsOfCall :
            ~TerminatedOom(p) =>
                \A i \in 1..Len(StatusIssuesOf(p.name)) :
                    StatusIssuesOf(p.name)[i].issue_type = TypeByClaimedOrder(p)

(* C2 as amended: the issue of a flagged pod has the type of the first     *)
(* matching rule in the order CrashLoopBackOff, ImagePullBackOff,          *)
(* CreateContainerError, OOMKilled (a waiting reason that contains it),    *)
(* ContainerError, PodStatusIssue, whatever the order of the containers.   *)
C2_CodeOrder ==
    Returned =>
        \A p \in PodsOfCall :
            \A i \in 1..Len(StatusIssuesOf(p.name)) :
                StatusIssuesOf(p.name)[i].issue_type = TypeByCodeOrder(p)

(* the first container in ImagePullBackOff and a later one in              *)
(* CrashLoopBackOff on a pod in a problematic phase: reported as           *)
(* CrashLoopBackOff                                                        *)
C2_Witness ==
    /\ Returned
    /\ \E p \in PodsOfCall :
        /\ Len(p.container_statuses) >= 2
        /\ p.container_statuses[1].state = Waiting(Str("ImagePullBackOff"))
        /\ p.container_statuses[2].state = Waiting(Str("CrashLoopBackOff"))
        /\ ProblemPhase(p)
        /\ Len(IssuesOf(p.name)) = 1
        /\ IssuesOf(p.name)[1].issue_type = "CrashLoopBackOff"

----------------------------------------------------------------------------
----------------------------------------------------------------------------
(* C4: a pod in no problematic phase and with none of the reasons of rules *)
(* 1-4, of which some container is waiting or terminated with a non-zero   *)
(* exit code, has exactly one issue, of type ContainerError and severity   *)
(* High, that names the first such container. (Stated of the calls that    *)
(* return their list.)                                                     *)
C4_ContainerErrorEmitted ==
    (Returned /\ ~raised) =>
        \A p \in PodsOfCall :
            (GoodPhase(p) /\ NoRule14(p) /\ HasContainerProblem(p)) =>
                /\ Len(IssuesOf(p.name)) = 1
                /\ IssuesOf(p.name)[1].issue_type = "ContainerError"
                /\ IssuesOf(p.name)[1].severity = "High"
                /\ In(FirstProblem(p).name, IssuesOf(p.name)[1].description)

----------------------------------------------------------------------------
(* C5: a pod of which some container is terminated with a reason that      *)
(* contains OOMKilled, and with none of the reasons of rules 1-3, has      *)
(* exactly one issue, of type OOMKilled and severity High. (Stated of the  *)
(* calls that return their list.)                                          *)
C5_OomKilledEmitted ==
    (Returned /\ ~raised) =>
        \A p \in PodsOfCall :
            (TerminatedOom(p) /\ NoRule13(p)) =>
                /\ Len(IssuesOf(p.name)) = 1
                /\ IssuesOf(p.name)[1].issue_type = "OOMKilled"
                /\ IssuesOf(p.name)[1].severity = "High"

----------------------------------------------------------------------------
(* C6: a pod with no condition of rules 1-6 has one ContainerRestartIssue  *)
(* of severity Medium for each container whose restart count is over 5,    *)
(* in container-status order, each naming its container, and no other      *)
(* issue.                                                                  *)
C6_RestartIssuePerContainer ==
    Returned =>
        \A p \in PodsOfCall :
            (GoodPhase(p) /\ ~HasContainerProblem(p)) =>
                /\ Len(IssuesOf(p.name)) = Len(OverThreshold(p))
                /\ \A i \in 1..Len(IssuesOf(p.name)) :
                    /\ IssuesOf(p.name)[i].issue_type = "ContainerRestartIssue"
                    /\ IssuesOf(p.name)[i].severity = "Medium"
                    /\ In(OverThreshold(p)[i].name, IssuesOf(p.name)[i].description)

----------------------------------------------------------------------------
(* C7: a pod in phase Running or Succeeded with no container waiting, none *)
(* terminated with a non-zero exit code and no restart count over 5 has no *)
(* issue; a namespace of such pods only yields the empty list, and the     *)
(* listing is the only API call made.                                      *)
C7_HealthyPodNoIssue ==
    Returned =>
        /\ \A p \in PodsOfCall : Healthy(p) => IssuesOf(p.name) = <<>>
        /\ (calls # <<>> /\ ~api.list_fails /\ \A p \in PodsOfCall : Healthy(p)) =>
              /\ issues = <<>>
              /\ ~raised
              /\ calls = <<ListCall(namespaces[nsIdx])>>

(* two healthy pods, one of them with a container that has restarted 5     *)
(* times: no issue, and only the listing was called                        *)
C7_Witness ==
    /\ Returned
    /\ Len(api.pods) >= 2
    /\ \A p \in PodsOfCall : Healthy(p)
    /\ \E p \in PodsOfCall :
          \E k \in 1..Len(p.container_statuses) :
              p.container_statuses[k].restart_count = RestartThreshold
    /\ issues = <<>>
    /\ calls = <<ListCall(namespaces[nsIdx])>>

----------------------------------------------------------------------------
(* What the call would have returned had no log read, or no event listing, *)
(* failed                                                                  *)
WithLogs == check_pod_health(impl, clusters, [api EXCEPT !.logs_fail = {}], namespaces[nsIdx]).val

WithEvents == check_pod_health(impl, clusters, [api EXCEPT !.events_fail = {}], namespaces[nsIdx]).val

Placeholder(logs) == Len(logs) > 0 /\ logs[1] = "Could not get logs: "

(* C8: when log reads raise, the call returns the issues it would have     *)
(* returned otherwise, with the same issue_type, severity and description, *)
(* and the logs of an issue of a pod whose log read raised are a non-empty *)
(* placeholder; in both detectors and for every rule.                      *)
C8_LogFailureKeepsIssue ==
    Returned =>
        /\ Len(issues) = Len(WithLogs)
        /\ \A i \in 1..Len(issues) :
            /\ issues[i].resource_name = WithLogs[i].resource_name
            /\ issues[i].issue_type = WithLogs[i].issue_type
            /\ issues[i].severity = WithLogs[i].severity
            /\ issues[i].description = WithLogs[i].description
            /\ issues[i].resource_name \in api.logs_fail => Placeholder(issues[i].logs)

----------------------------------------------------------------------------
(* C9: when event listings raise, the call still returns the issue of the  *)
(* pod whose listing raised and the issues of the other pods of the        *)
(* namespace.                                                              *)
C9_EventFailureKeepsIssues ==
    Returned =>
        /\ Len(issues) = Len(WithEvents)
        /\ \A i \in 1..Len(issues) :
            /\ issues[i].resource_name = WithEvents[i].resource_name
            /\ issues[i].issue_type = WithEvents[i].issue_type

----------------------------------------------------------------------------
(* C10: a check_pod_health call whose pod listing fails returns the empty  *)
(* list to its caller, and monitor_pods goes on: its calls so far are one  *)
(* per namespace, in order, up to the namespace it is at, and at the end   *)
(* it has called check_pod_health for every namespace, whichever listings  *)
(* failed.                                                                 *)
NamespacesOf(sc) == [k \in 1..Len(sc) |-> sc[k].namespace]

C10_ListFailureSkipsNamespace ==
    /\ (api.list_fails /\ calls # <<>>) => (issues = <<>> /\ pc \in {"returned", "issues", "process"})
    /\ pc = "issues" => NamespacesOf(scanned) = SubSeq(namespaces, 1, nsIdx)
    /\ pc = "scan" => NamespacesOf(scanned) = SubSeq(namespaces, 1, nsIdx - 1)
    /\ pc = "done" => NamespacesOf(scanned) = namespaces
    /\ pc = "error" =>
           /\ issueIdx <= Len(issues)
           /\ impl # MainKubernetesMonitor => ~scanned[Len(scanned)].list_failed

(* the listing of the first namespace failed, and the second namespace was *)
(* scanned and its issues counted                                          *)
C10_Witness ==
    /\ pc = "done"
    /\ Len(scanned) >= 2
    /\ scanned[1].list_failed
    /\ ~scanned[2].list_failed
    /\ total_issues > 0

----------------------------------------------------------------------------
(* Vocabulary of the properties of analyze_issue *)

Analyzed1 == pc = "analyzed"

(* the call sent its request *)
Sent == Len(analysis.requests) = 1

(* the endpoint answered 200 with a text *)
GotText ==
    /\ input.llm.kind = "response"
    /\ input.llm.status = 200
    /\ input.llm.body.kind = "text"

(* the request failed: no response, a status other than 200, or a payload *)
(* without the text                                                        *)
FailedCall == ~GotText

RecommendationsMarker == <<"Recommendations", ":">>
DiagnosisLabel == <<"Diagnosis", ":">>

HasMarker(text) == Occurs(text, RecommendationsMarker) # {}

BeforeMarker(text) == SubSeq(text, 1, Min(Occurs(text, RecommendationsMarker)) - 1)

AfterMarker(text) ==
    SubSeq(text, Min(Occurs(text, RecommendationsMarker)) + Len(RecommendationsMarker),
           Len(text))

DropLeadingLabel(s) ==
    IF Len(s) >= Len(DiagnosisLabel) /\ SubSeq(s, 1, Len(DiagnosisLabel)) = DiagnosisLabel
    THEN SubSeq(s, Len(DiagnosisLabel) + 1, Len(s))
    ELSE s

StartsWith(s, prefix) == Len(s) >= Len(prefix) /\ SubSeq(s, 1, Len(prefix)) = prefix

IsSuffix(t, s) == Len(t) <= Len(s) /\ SubSeq(s, Len(s) - Len(t) + 1, Len(s)) = t

WholeIssue(issue) ==
    /\ {"resource_type", "resource_name", "issue_type", "namespace"} \subseteq DOMAIN issue
    /\ analyzer = LLMProcessor => {"details", "cluster"} \subseteq DOMAIN issue

(* the logs and the events of the issue as the analyzer in use reads them: *)
(* ClaudeAnalyzer at the top level, LLMProcessor in details                *)
IssueLogs(issue) ==
    IF analyzer = ClaudeAnalyzer
    THEN (IF HasKey(issue, "logs") THEN issue.logs ELSE <<>>)
    ELSE IF HasKey(issue, "details") /\ HasKey(issue.details, "logs")
    THEN issue.details.logs ELSE <<>>

IssueEvents(issue) ==
    IF analyzer = ClaudeAnalyzer
    THEN (IF HasKey(issue, "events") THEN issue.events ELSE <<>>)
    ELSE IF HasKey(issue, "details") /\ HasKey(issue.details, "events")
    THEN issue.details.events ELSE <<>>

FirstIndex(tok, s) == Min({i \in 1..Len(s) : s[i] = tok})

----------------------------------------------------------------------------
(* C11: analyze_issue never raises to its caller: for every issue, one     *)
(* missing expected fields included, and every outcome of the LLM call     *)
(* (network error, response that is not 2xx, malformed payload, no         *)
(* response content) it returns a diagnosis / recommendations pair.        *)

C11_AnalyzeNeverRaises ==
    Analyzed1 =>
        /\ ~analysis.raised
        /\ DOMAIN analysis.val = {"diagnosis", "recommendations"}

(* an issue without resource_name, and a payload without content on a      *)
(* whole issue                                                             *)
C11_Witness ==
    /\ Analyzed1
    /\ ~analysis.raised
    /\ \/ ~HasKey(input.issue, "resource_name")
       \/ /\ WholeIssue(input.issue)
          /\ input.llm.kind = "response"
          /\ input.llm.body.kind = "no_content"
          /\ Sent

----------------------------------------------------------------------------
(* C12 as stated: on any failure of the analysis call (network error,      *)
(* response that is not 200, malformed payload) the returned Analysis is   *)
(* the same degraded value, the one a network error gives: its diagnosis   *)
(* does not vary with the failure cause or the status code.                *)

----------------------------------------------------------------------------
(* C13: for every response text that contains the marker                   *)
(* "Recommendations:" the parsed diagnosis is the text before the first    *)
(* marker with only a leading "Diagnosis:" label removed, and the parsed   *)
(* recommendations are everything after that first marker, nothing         *)
(* dropped even when the marker or "Diagnosis:" occurs again later         *)
(* (surrounding white space aside, as in the specification's example).     *)

C13_ParseAtFirstMarker ==
    (Analyzed1 /\ Sent /\ GotText /\ HasMarker(input.llm.body.text)) =>
        /\ analysis.val.diagnosis =
               strip(DropLeadingLabel(strip(BeforeMarker(input.llm.body.text))))
        /\ analysis.val.recommendations = strip(AfterMarker(input.llm.body.text))

----------------------------------------------------------------------------
(* C14: for every response text that does not contain the marker           *)
(* "Recommendations:" the parsed diagnosis is the entire response text     *)
(* unchanged and the recommendations are a fixed non-empty sentinel, the   *)
(* same for every such response.                                           *)

C14_NoMarkerSentinel ==
    (Analyzed1 /\ Sent /\ GotText /\ ~HasMarker(input.llm.body.text)) =>
        /\ analysis.val.diagnosis = input.llm.body.text
        /\ analysis.val.recommendations # <<>>
        /\ analysis.val.recommendations =
               analyze_issue(analyzer, input.issue, Response(200, Text(<<>>))).val.recommendations

----------------------------------------------------------------------------
(* Vocabulary of the properties of the scan loops *)

DispatchSteps == {"display_issue", "send_alert"}

IsCheck(t) == t.step = "check_pod_health"
IsAnalysis(t) == t.step = "analysis"
IsDispatch(t) == t.step \in DispatchSteps

SameIssue(t, u) ==
    t.cycle = u.cycle /\ t.namespace = u.namespace /\ t.issue = u.issue

(* the position of the check_pod_health call that the step at k belongs to *)
CheckOf(k) == Max({j \in 1..k : IsCheck(trace[j])})

(* the loop was left: monitor_pods printed its summary, or an exception    *)
(* left the loop                                                           *)
LoopLeft == pc \in {"done", "error"}

InLoop == pc \in {"issues", "process"}

PodIndex(pod_name) == CHOOSE i \in 1..Len(api.pods) : api.pods[i].name = pod_name

ContainerOf(issue) ==
    IF HasKey(issue, "container") THEN issue.container ELSE issue.description[2]

ContainerIndex(issue) ==
    LET pod == api.pods[PodIndex(issue.resource_name)] IN
    CHOOSE i \in 1..Len(pod.container_statuses) :
        pod.container_statuses[i].name = ContainerOf(issue)

IsRestartIssue(issue) == issue.issue_type \in {"ContainerRestartIssue", "RestartLoop"}

----------------------------------------------------------------------------
(* C15: if delivering or rendering the alert of one issue fails in a sink, *)
(* the pipeline does not stop: the remaining issues of the namespace and   *)
(* the remaining namespaces are still analysed and dispatched. When the    *)
(* loop is left, every namespace of the cycle was checked and every issue  *)
(* a check returned was analysed and dispatched.                           *)

C15_SinkFailureDoesNotStop ==
    LoopLeft =>
        /\ \A i \in 1..Len(namespaces) :
               \E k \in 1..Len(trace) :
                   /\ IsCheck(trace[k])
                   /\ trace[k].cycle = cycle
                   /\ trace[k].namespace = namespaces[i]
        /\ \A k \in 1..Len(trace) :
               IsCheck(trace[k]) =>
                   \A i \in 1..trace[k].n :
                       \E j \in (k + 1)..Len(trace) :
                           /\ IsDispatch(trace[j])
                           /\ trace[j].cycle = trace[k].cycle
                           /\ trace[j].namespace = trace[k].namespace
                           /\ trace[j].issue = i

----------------------------------------------------------------------------
(* C16: given a namespace containing exactly one pod, whose container is   *)
(* waiting with reason ImagePullBackOff, one run of the pipeline (with its *)
(* analyzer configured) dispatches exactly one alert, with issue_type      *)
(* ImagePullBackOff and severity High, and makes a call to the analysis    *)
(* step whose prompt contains the pod name.                                *)

C16_OneImagePullAlert ==
    (/\ pc = "issues"
     /\ analyzer # "none"
     /\ ~api.list_fails
     /\ Len(api.pods) = 1
     /\ WaitingWith(api.pods[1], "ImagePullBackOff")
     /\ issueIdx > Len(issues))
    => /\ Len(displayed) = 1
       /\ displayed[1].issue_type = "ImagePullBackOff"
       /\ displayed[1].severity = "High"
       /\ Len(analysis.requests) = 1
       /\ In(api.pods[1].name, analysis.requests[1])

----------------------------------------------------------------------------
(* C17: within a namespace the issues are emitted in pod-list order (and   *)
(* within one pod in container-status order), and the scan loop analyses   *)
(* and dispatches each emitted issue exactly once in that order: the alert *)
(* of issue i is dispatched right after the analysis of issue i and before *)
(* the analysis of issue i+1, and all the issues of a namespace are        *)
(* dispatched before the next namespace is listed. A dispatch that raises  *)
(* is the last step of the loop.                                           *)

EmittedInOrder ==
    InLoop =>
        \A i, j \in 1..Len(issues) :
            i < j =>
                \/ PodIndex(issues[i].resource_name) < PodIndex(issues[j].resource_name)
                \/ /\ issues[i].resource_name = issues[j].resource_name
                   /\ IsRestartIssue(issues[i])
                   /\ IsRestartIssue(issues[j]) => ContainerIndex(issues[i]) < ContainerIndex(issues[j])

StepsInOrder ==
    \A k \in 1..Len(trace) :
        LET t == trace[k] IN
        /\ IsCheck(t) /\ k > 1 =>
               LET j == CheckOf(k - 1) IN
               /\ k = j + 2 * trace[j].n + 1
               /\ \A m \in (j + 1)..(k - 1) : IsDispatch(trace[m]) => trace[m].n = 1
        /\ IsAnalysis(t) =>
               LET j == CheckOf(k) IN
               /\ t.issue \in 1..trace[j].n
               /\ k = j + 2 * (t.issue - 1) + 1
               /\ t.cycle = trace[j].cycle /\ t.namespace = trace[j].namespace
        /\ IsDispatch(t) =>
               /\ k > 1
               /\ IsAnalysis(trace[k - 1])
               /\ SameIssue(t, trace[k - 1])
               /\ t.n = 0 => (k = Len(trace) /\ pc = "error")

C17_AnalysedAndDispatchedInOrder ==
    /\ EmittedInOrder
    /\ StepsInOrder
    /\ (pc \in {"issues", "error"} /\ impl # MainKubernetesMonitor) =>
           displayed = SubSeq(issues, 1, issueIdx - 1)
    /\ (pc \in {"done", "sleep"} /\ trace # <<>>) =>
           Len(trace) = CheckOf(Len(trace)) + 2 * trace[CheckOf(Len(trace))].n

(* monitor_pods is done with two namespaces of several issues each *)
C17_Witness ==
    /\ pc = "done"
    /\ \E j, k \in 1..Len(trace) :
           /\ j < k
           /\ IsCheck(trace[j]) /\ trace[j].n >= 2
           /\ IsCheck(trace[k]) /\ trace[k].n >= 2
           /\ Len(trace) = k + 2 * trace[k].n

----------------------------------------------------------------------------
(* C18: each call of analyze_issue sends at most one request to the LLM    *)
(* endpoint, and the scan loop calls analyze_issue at most once per issue; *)
(* after a failed request no further request is sent for that issue and    *)
(* the degraded Analysis is returned at once.                              *)

DegradedValue(v) ==
    IF analyzer = ClaudeAnalyzer
    THEN /\ StartsWith(v.diagnosis, <<"Error processing with Claude: ">>)
         /\ v.recommendations = <<"Please check the logs for details">>
    ELSE \/ v = Analysis(<<"Error processing the issue with LLM">>,
                         <<"Review manually or try again later.">>)
         \/ /\ StartsWith(v.diagnosis, <<"Could not analyze the issue (Error ">>)
            /\ v.recommendations = <<"Review logs and events manually.">>

C18_OneRequestPerIssue ==
    /\ \A k \in 1..Len(trace) :
           IsAnalysis(trace[k]) =>
               /\ trace[k].n <= 1
               /\ \A j \in 1..Len(trace) :
                      (IsAnalysis(trace[j]) /\ SameIssue(trace[j], trace[k])) => j = k
    /\ (input.called /\ pc \in {"issues", "process", "error"}) =>
           /\ Len(analysis.requests) <= 1
           /\ (Len(analysis.requests) = 1 /\ FailedCall) => DegradedValue(analysis.val)

(* the endpoint could not be reached while the second issue of a namespace *)
(* was analysed                                                            *)
C18_Witness ==
    /\ pc \in {"issues", "process"}
    /\ input.called
    /\ input.llm.kind = "error"
    /\ Len(analysis.requests) = 1
    /\ DegradedValue(analysis.val)
    /\ \E k \in 1..Len(trace) :
           IsAnalysis(trace[k]) /\ trace[k].issue = 2 /\ trace[k].n = 1

----------------------------------------------------------------------------
(* C19: the prompt built for an issue contains event information for at    *)
(* most the first 5 events of the issue's event sequence, in their         *)
(* original order: no event beyond the fifth appears anywhere in the       *)
(* prompt.                                                                 *)

C19_PromptHasFirstFiveEvents ==
    Analyzed1 /\ Sent =>
        LET prompt == analysis.requests[1]
            events == IssueEvents(input.issue)
        IN  /\ \A k \in 1..Len(events) : k > EventCap => ~In(events[k].message, prompt)
            /\ \A j, k \in 1..Len(events) :
                   (j < k /\ In(events[j].message, prompt) /\ In(events[k].message, prompt))
                   => FirstIndex(events[j].message, prompt)
                          < FirstIndex(events[k].message, prompt)

----------------------------------------------------------------------------
(* C20: the log text placed in the prompt is a bounded tail of the issue's *)
(* logs (at most the last 1000 characters in ClaudeAnalyzer, at most the   *)
(* last 20 lines in LLMProcessor): it is a suffix of the logs, and no part *)
(* of the logs outside that tail appears anywhere in the prompt.           *)

(* where the lines of a text start *)
LineStarts(s) == {1} \cup {i + 1 : i \in {j \in 1..(Len(s) - 1) : s[j] = "\n"}}

(* the first position of the tail the analyzer may quote *)
TailStart(logs) ==
    IF analyzer = ClaudeAnalyzer
    THEN (IF Len(logs) > LogTailChars THEN Len(logs) - LogTailChars + 1 ELSE 1)
    ELSE LET starts == LineStarts(logs) IN
         IF Cardinality(starts) <= LogTailLines THEN 1
         ELSE CHOOSE p \in starts :
                  Cardinality({q \in starts : q >= p}) = LogTailLines

(* the log text of the prompt: what stands between the two fixed pieces    *)
(* of the f-string around it                                               *)
PromptLogs(prompt) ==
    IF analyzer = ClaudeAnalyzer
    THEN SubSeq(prompt, FirstIndex(" LOGS: ", prompt) + 1,
                FirstIndex(" EVENTS: ", prompt) - 1)
    ELSE SubSeq(prompt, FirstIndex(" Logs (excerpt): ", prompt) + 1,
                FirstIndex(" Please provide: 1. A clear and concise diagnosis of the issue",
                           prompt) - 1)

C20_PromptHasLogTail ==
    (Analyzed1 /\ Sent /\ Len(IssueLogs(input.issue)) > 0) =>
        LET prompt == analysis.requests[1]
            logs == IssueLogs(input.issue)
        IN  /\ IsSuffix(strip(PromptLogs(prompt)), strip(logs))
            /\ Len(PromptLogs(prompt)) <= Len(logs) - TailStart(logs) + 1
            /\ \A i \in 1..(TailStart(logs) - 1) :
                   logs[i] = "\n" \/ ~In(logs[i], prompt)

----------------------------------------------------------------------------
(* Vocabulary of the determinism of the classification *)

(* the (issue_type, severity, description) of the issues of a list *)
Triples(is) ==
    [i \in 1..Len(is) |-> <<is[i].issue_type, is[i].severity, is[i].description>>]

(* a namespace that holds the pod p alone, at another time: no event is    *)
(* listed for it and every API call succeeds                               *)
Alone(p) ==
    [list_fails |-> FALSE, pods |-> <<p>>, logs_fail |-> {}, events_fail |-> {},
     events |-> <<>>]

(* what the detector in use returns for that namespace *)
ScannedAlone(p) == check_pod_health(impl, clusters, Alone(p), namespaces[nsIdx]).val

----------------------------------------------------------------------------
(* C21: classification is deterministic: the issues check_pod_health       *)
(* returns for a pod have the (issue_type, severity, description) that the *)
(* same status snapshot yields in any other scan, whatever the logs and    *)
(* the events of the pod and whatever the other pods of the namespace.     *)

C21_SameSnapshotSameClassification ==
    Returned =>
        \A p \in PodsOfCall :
            Triples(IssuesOf(p.name)) = Triples(ScannedAlone(p))

----------------------------------------------------------------------------
(* C22: the outer loop supports graceful shutdown between iterations: once *)
(* shutdown is requested, the loop finishes dispatching the issues of the  *)
(* namespace it is processing and then ends, before the next sleep. When   *)
(* the loop has ended on a request, every issue of the namespace it was at *)
(* has been analysed and dispatched.                                       *)

C22_GracefulShutdown ==
    pc = "interrupted" =>
        /\ issueIdx > Len(issues)
        /\ \A k \in 1..Len(trace) :
               IsCheck(trace[k]) =>
                   \A i \in 1..trace[k].n :
                       \E j \in (k + 1)..Len(trace) :
                           IsDispatch(trace[j]) /\ trace[j].issue = i
                           /\ trace[j].cycle = trace[k].cycle
                           /\ trace[j].namespace = trace[k].namespace

----------------------------------------------------------------------------
(* C23: an alert rendered by a sink shows at most 5 events, the last 5 of  *)
(* the issue's event sequence, and a bounded log excerpt: the last 10      *)
(* lines on the terminal, the last 5 on Slack.                             *)

RenderedAlert == pc = "rendered" /\ ~rendered.raised

SinkLogLines == IF impl = PodMonitor THEN DisplayLogLines ELSE SlackLogLines

EventRows(events) == [i \in 1..Len(events) |-> EventRow(events[i])]

LinesOf(logs) == split(strip(logs), <<"\n">>)

LogExcerptBounded ==
    /\ Len(LinesOf(rendered.logs)) <= SinkLogLines
    /\ LinesOf(rendered.logs) = LastN(LinesOf(IssueLogs(input.issue)), SinkLogLines)

C23_LastFiveEvents ==
    RenderedAlert =>
        /\ Len(rendered.events) <= 5
        /\ rendered.events = LastN(EventRows(IssueEvents(input.issue)), 5)
        /\ LogExcerptBounded

(* the part of C23 on the log excerpt, which both sinks keep *)
C23_LogExcerptBounded == RenderedAlert => LogExcerptBounded

----------------------------------------------------------------------------
(* C24: no component keeps state between calls: the issues of a call of    *)
(* check_pod_health are those the API responses of that call give, the     *)
(* analysis of an issue is the one that issue and the endpoint's answer to *)
(* that call give, whatever the cycle; in every cycle each issue of the    *)
(* list that was processed has been dispatched in that cycle, so an        *)
(* unchanged unhealthy cluster is reported again in the next cycle.        *)

DetectedNow ==
    IF impl = MainKubernetesMonitor
    THEN main_check_pod_health(clusters, cluster_name, api, namespaces[nsIdx]).val
    ELSE check_pod_health(impl, clusters, api, namespaces[nsIdx]).val

AnalysedNow ==
    IF impl = MainKubernetesMonitor
    THEN analyze_issue(analyzer, input.issue, input.llm)
    ELSE AnalysisStep(analyzer, input.issue, input.llm)

DispatchedInCycle(i) ==
    \E m \in 1..Len(trace) :
        /\ IsDispatch(trace[m])
        /\ trace[m].cycle = cycle
        /\ trace[m].namespace = namespaces[nsIdx]
        /\ trace[m].issue = i

----------------------------------------------------------------------------
(* C25: every issue check_pod_health emits has resource_type "Pod", an     *)
(* issue_type of the closed set of seven, and the severity "Medium"        *)
(* exactly when it is a ContainerRestartIssue and "High" otherwise; "Low"  *)
(* is never emitted.                                                       *)

IssueTypes == StatusIssueTypes \cup {"ContainerRestartIssue"}

C25_IssueSchema ==
    Returned =>
        \A i \in 1..Len(issues) :
            /\ issues[i].resource_type = "Pod"
            /\ issues[i].issue_type \in IssueTypes
            /\ issues[i].severity =
                   IF issues[i].issue_type = "ContainerRestartIssue" THEN "Medium" ELSE "High"
            /\ issues[i].severity # "Low"

(* a returned list with an issue graded High by its phase and one graded   *)
(* Medium by its restarts                                                  *)
C25_Witness ==
    /\ Returned
    /\ \E i, j \in 1..Len(issues) :
           /\ issues[i].issue_type = "PodStatusIssue" /\ issues[i].severity = "High"
           /\ issues[j].issue_type = "ContainerRestartIssue" /\ issues[j].severity = "Medium"

----------------------------------------------------------------------------
(* C26: check_pod_health is all-or-nothing per namespace: when an          *)
(* exception is raised while any pod is processed, it returns the empty    *)
(* list; the issues assembled for earlier pods of the namespace are        *)
(* discarded, and none of them is analysed or dispatched.                  *)

CallMade == pc \in {"returned", "issues", "process"}

C26_AllOrNothing ==
    (CallMade /\ raised) =>
        /\ issues = <<>>
        /\ InLoop => /\ IsCheck(trace[Len(trace)])
                     /\ trace[Len(trace)].n = 0
                     /\ displayed = <<>>

(* the exception is raised at the second pod, after the events of the      *)
(* first were listed and its issue appended                                *)
C26_Witness ==
    /\ CallMade /\ raised
    /\ ~api.list_fails
    /\ Len(api.pods) >= 2
    /\ \E k \in 1..(Len(calls) - 1) : calls[k] = EventCall(api.pods[1].name)
    /\ issues = <<>>

----------------------------------------------------------------------------
(* C27: if a pod of the namespace has a container waiting with a null      *)
(* reason, or a null phase, the classification raises and check_pod_health *)
(* returns the empty list for the whole namespace.                         *)

NullPhase(p) == p.phase = None

WaitingNull(p, k) ==
    /\ p.container_statuses[k].state.kind = "waiting"
    /\ p.container_statuses[k].state.reason = None

NullReason(p) == \E k \in 1..Len(p.container_statuses) : WaitingNull(p, k)

C27_NullRaises ==
    (Returned /\ \E p \in PodsOfCall : NullPhase(p) \/ NullReason(p)) =>
        raised /\ issues = <<>>

(* C27 as the code has it: the null reason raises unless a container       *)
(* status before it in the same pod is waiting with a reason that contains *)
(* "OOMKilled", which ends the scan of the reasons before the null one is  *)
(* read.                                                                   *)
NullReasonRead(p) ==
    \E k \in 1..Len(p.container_statuses) :
        /\ WaitingNull(p, k)
        /\ \A j \in 1..(k - 1) :
               ~(/\ p.container_statuses[j].state.kind = "waiting"
                 /\ p.container_statuses[j].state.reason # None
                 /\ In("OOMKilled", p.container_statuses[j].state.reason))

C27_NullReadRaises ==
    (Returned /\ \E p \in PodsOfCall : NullPhase(p) \/ NullReasonRead(p)) =>
        raised /\ issues = <<>>

(* the null reason is on the second pod, and the first pod is unhealthy:   *)
(* its events were listed before the exception                             *)
C27_Witness ==
    /\ Returned /\ raised /\ issues = <<>>
    /\ Len(api.pods) >= 2
    /\ ~api.list_fails /\ api.events_fail = {} /\ api.logs_fail = {}
    /\ ~NullPhase(api.pods[1]) /\ ~NullReason(api.pods[1])
    /\ NullReasonRead(api.pods[2]) /\ ~NullPhase(api.pods[2])
    /\ \E k \in 1..Len(calls) : calls[k] = EventCall(api.pods[1].name)

----------------------------------------------------------------------------
(* C28: the logs of an issue of rules 1-6 are read from the first declared *)
(* container of the pod, also when the condition that triggered the issue  *)
(* is on another container; the logs of a ContainerRestartIssue are read   *)
(* from the container whose restart count is over the threshold; a pod     *)
(* with no declared container gets the placeholder logs.                   *)

PodNamed(pod_name) == api.pods[PodIndex(pod_name)]

LogsFrom(issue, container) ==
    IF issue.resource_name \in api.logs_fail THEN Placeholder(issue.logs)
    ELSE issue.logs = read_namespaced_pod_log(api, issue.resource_name, container).val

C28_LogSource ==
    Returned =>
        \A i \in 1..Len(issues) :
            LET pod == PodNamed(issues[i].resource_name) IN
            IF IsRestartIssue(issues[i])
            THEN /\ LogsFrom(issues[i], ContainerOf(issues[i]))
                 /\ pod.container_statuses[ContainerIndex(issues[i])].restart_count
                        > RestartThreshold
            ELSE IF pod.containers = <<>> THEN Placeholder(issues[i].logs)
            ELSE LogsFrom(issues[i], pod.containers[1])

(* the first container runs, the second waits in CrashLoopBackOff, and the *)
(* logs of the issue are those of the first                                *)
C28_Witness ==
    /\ Returned
    /\ \E i \in 1..Len(issues) :
           LET pod == PodNamed(issues[i].resource_name) IN
           /\ issues[i].issue_type = "CrashLoopBackOff"
           /\ Len(pod.container_statuses) = 2
           /\ pod.container_statuses[1].state.kind = "running"
           /\ pod.container_statuses[2].state.kind = "waiting"
           /\ issues[i].logs = <<"logs of ", pod.name, "/", pod.containers[1]>>
           /\ pod.containers[1] # pod.container_statuses[2].name

----------------------------------------------------------------------------
(* C29: in the detector of main.py the restart check and the Pending /     *)
(* CrashLoopBackOff check are independent: a pod with k containers whose   *)
(* restart count is over 5, and that is Pending or has a container waiting *)
(* in CrashLoopBackOff, yields k RestartLoop issues followed by one        *)
(* DeploymentIssue; with CrashLoopBackOff and restart_count 10 on one      *)
(* container it yields two issues.                                         *)

DeploymentCondition(p) == p.phase = Str("Pending") \/ WaitingWith(p, "CrashLoopBackOff")

LegacyIssuesOf(p) ==
    /\ Len(IssuesOf(p.name)) = Len(OverThreshold(p)) + 1
    /\ \A i \in 1..Len(OverThreshold(p)) :
           /\ IssuesOf(p.name)[i].issue_type = "RestartLoop"
           /\ IssuesOf(p.name)[i].container = OverThreshold(p)[i].name
    /\ IssuesOf(p.name)[Len(OverThreshold(p)) + 1].issue_type = "DeploymentIssue"

C29_RestartLoopsThenDeployment ==
    Returned => \A p \in PodsOfCall : DeploymentCondition(p) => LegacyIssuesOf(p)

(* C29 of the calls that return their list *)
C29_WhenNothingRaises ==
    (Returned /\ ~raised) => \A p \in PodsOfCall : DeploymentCondition(p) => LegacyIssuesOf(p)

----------------------------------------------------------------------------
(* C30: for an issue of KubernetesMonitor.check_pod_health of              *)
(* k8s/monitor.py, which has its logs and events at the top level and no   *)
(* details field, LLMProcessor.analyze_issue returns the fixed degraded    *)
(* pair ("Error processing the issue with LLM", "Review manually or try    *)
(* again later.") and sends no request to the endpoint.                    *)

ClusterIssueKeys == DOMAIN ClusterIssue(<<>>, <<>>)

OfClusterMonitor(issue) == DOMAIN issue = ClusterIssueKeys

C30_ClusterIssueNotAnalysed ==
    (Analyzed1 /\ analyzer = LLMProcessor /\ OfClusterMonitor(input.issue)) =>
        /\ ~analysis.raised
        /\ analysis.val.diagnosis = Str("Error processing the issue with LLM")
        /\ analysis.val.recommendations = Str("Review manually or try again later.")
        /\ analysis.requests = <<>>

(* the endpoint would have answered 200 with a text *)
C30_Witness ==
    /\ Analyzed1 /\ analyzer = LLMProcessor
    /\ OfClusterMonitor(input.issue)
    /\ Len(input.issue.logs) > 1 /\ Len(input.issue.events) > 1
    /\ GotText
    /\ analysis.requests = <<>>
    /\ analysis.val.diagnosis = Str("Error processing the issue with LLM")

====
